---- MODULE Spec2Model ----
(***************************************************************************)
(* A model of the Void Linux installer scripts:                            *)
(*   A = src/voidinstall.py        (the current revision)                  *)
(*   B = src/void/voidinstall.py   (the earlier revision)                  *)
(* A run is the sequence of external commands and prompts the script       *)
(* issues; every command's exit status is chosen by the environment.       *)
(* Strings are sequences of tokens (their concatenation is the string), so *)
(* that f-string concatenation, startswith and grep are computed, not      *)
(* assumed.                                                                *)
(***************************************************************************)
EXTENDS Integers, Sequences, FiniteSets, TLC

\* ------------------------------------------------------------------ bounds
\* At most MaxFail commands of one run return a nonzero exit status.
MaxFail == 1
\* At most MaxExtra further mount entries are typed in manual mode.
MaxExtra == 1
\* No stage issues more than StageSpan commands and prompts.
StageSpan == 30
\* One call of unmount_disk_partitions issues at most ReleaseSpan commands.
ReleaseSpan == 7

\* ------------------------------------------------------------------ strings
Digits == {"0", "1", "2", "3", "4", "5", "6", "7", "8", "9"}

\* str(n) for the partition numbers the scripts use
NumStr(n) == <<<<"1">>, <<"2">>, <<"3">>, <<"4">>, <<"5">>, <<"6">>>>[n]

EndsInDigit(s) == Len(s) > 0 /\ s[Len(s)] \in Digits

IsPrefix(p, s) == Len(p) <= Len(s) /\ SubSeq(s, 1, Len(p)) = p

RECURSIVE StrLen(_)
StrLen(s) == IF s = <<>> THEN 0 ELSE Len(Head(s)) + StrLen(Tail(s))

\* disk names a user can type at select_disk's prompt
DiskNames == {<<"s", "d", "a">>, <<"n", "v", "m", "e", "0", "n", "1">>}

\* select_disk: return f"/dev/{disk}"
select_disk(name) == <<"/dev/">> \o name

\* f"{disk}{n}": how every partition path is built
PartPath(disk, n) == disk \o NumStr(n)

MNT      == <<"/mnt">>
MNT_BOOT == <<"/mnt", "/boot">>
MNT_EFI  == <<"/mnt", "/boot", "/efi">>
NoStr    == <<>>

\* ------------------------------------------------------------------ commands
Running == 0 - 1

\* one external command: op is the program and its mode, dev the device
\* argument, at the path argument, opt the remaining arguments; by is how it
\* was issued, filled in when it is issued
Cmd(op, dev, at, opt) ==
    [op |-> op, dev |-> dev, at |-> at, opt |-> opt, rc |-> 0, by |-> ""]

\* how a command was issued: through run_cmd with check=True, through run_cmd
\* with check=False, or by subprocess.run outside run_cmd
ByCheck == "run_cmd"
ByNoCheck == "run_cmd check=False"
BySubprocess == "subprocess.run"

\* a run_cmd call with check=True (the default) / check=False
Crit(op, dev, at, opt) == [c |-> Cmd(op, dev, at, opt), check |-> TRUE]
Best(op, dev, at, opt) == [c |-> Cmd(op, dev, at, opt), check |-> FALSE]

RemoveAt(tab, at) == SelectSeq(tab, LAMBDA m : m.at # at)
RemoveDev(tab, dev) == SelectSeq(tab, LAMBDA m : m.dev # dev)

\* what a command that returned 0 did to the mount table
MountEffect(tab, c) ==
    IF c.op = "mount" THEN Append(tab, [dev |-> c.dev, at |-> c.at])
    ELSE IF c.op \in {"umount", "umount -l", "umount -lf"}
         THEN IF c.at # NoStr THEN RemoveAt(tab, c.at) ELSE RemoveDev(tab, c.dev)
    ELSE tab

\* what a command that returned 0 did to the filesystem signatures
FsEffect(fs, c) ==
    IF c.op = "mkfs"
    THEN {f \in fs : f.dev # c.dev} \cup {[dev |-> c.dev, type |-> c.opt]}
    ELSE IF c.op = "mkswap"
    THEN {f \in fs : f.dev # c.dev} \cup {[dev |-> c.dev, type |-> "swap"]}
    ELSE fs

SwapEffect(sw, c) ==
    IF c.op = "swapon" THEN sw \cup {c.dev}
    ELSE IF c.op = "swapoff" THEN sw \ {c.dev}
    ELSE sw

CryptEffect(cr, c) ==
    IF c.op = "cryptsetup close" THEN SelectSeq(cr, LAMBDA m : m.name # c.dev) ELSE cr

\* what a command that returned 0 did to the partition table of the target disk
PartsEffect(ps, c) ==
    IF c.op = "sgdisk -n" THEN ps \cup {c.opt.num}
    ELSE IF c.op = "sgdisk -Z" THEN {}
    ELSE ps

\* the exit status the environment gives the next command
NextRc(st) == IF Len(st.log) + 1 \in st.F THEN 1 ELSE 0

\* subprocess.run(cmd, shell=True) with exit status rc
Issue(st, c, rc) ==
    [st EXCEPT !.log = Append(@, [c EXCEPT !.rc = rc]),
               !.mtab = IF rc = 0 THEN MountEffect(@, c) ELSE @,
               !.fs = IF rc = 0 THEN FsEffect(@, c) ELSE @,
               !.swaps = IF rc = 0 THEN SwapEffect(@, c) ELSE @,
               !.crypts = IF rc = 0 THEN CryptEffect(@, c) ELSE @,
               !.parts = IF rc = 0 THEN PartsEffect(@, c) ELSE @]

\* the same, counting the failures the environment chose
Fated(st) == [st EXCEPT !.nfail = IF NextRc(st) # 0 THEN @ + 1 ELSE @]

\* run_cmd_ok without the exit on a failed check=True command
run_cmd_ok_NeverExits(st, x, ok) ==
    IF st.exit # Running THEN st
    ELSE LET rc == IF ok /\ NextRc(st) = 0 THEN 0 ELSE 1
             by == IF x.c.by # "" THEN x.c.by ELSE IF x.check THEN ByCheck ELSE ByNoCheck
         IN  Issue(IF ok THEN Fated(st) ELSE st, [x.c EXCEPT !.by = by], rc)

\* run_cmd: a nonzero status of a check=True command ends the process with 1
\* (A waits for Enter first; no command follows either way).
\* The status is nonzero when the command cannot succeed on this system (~ok)
\* or the environment fails it.
run_cmd_ok(st, x, ok) ==
    IF st.exit # Running THEN st
    ELSE LET rc == IF ok /\ NextRc(st) = 0 THEN 0 ELSE 1
             by == IF x.c.by # "" THEN x.c.by ELSE IF x.check THEN ByCheck ELSE ByNoCheck
             s1 == Issue(IF ok THEN Fated(st) ELSE st, [x.c EXCEPT !.by = by], rc)
         IN  IF rc # 0 /\ x.check THEN [s1 EXCEPT !.exit = 1] ELSE s1

run_cmd(st, x) == run_cmd_ok(st, x, TRUE)

RECURSIVE RunAll(_, _)
RunAll(st, xs) == IF xs = <<>> THEN st ELSE RunAll(run_cmd(st, Head(xs)), Tail(xs))

\* input(prompt) answered with ans
Ask(st, prompt, ans) ==
    IF st.exit # Running THEN st
    ELSE [st EXCEPT !.log = Append(@, [op |-> "input", dev |-> NoStr, at |-> NoStr,
                                        opt |-> <<prompt, ans>>, rc |-> 0, by |-> "input"])]

\* sys.exit(code)
Exit(st, code) == IF st.exit # Running THEN st ELSE [st EXCEPT !.exit = code]

IsMounted(st, at) == \E i \in DOMAIN st.mtab : st.mtab[i].at = at

\* ------------------------------------------------------------------ chroot binds
BindDev    == Crit("mount", <<"/dev">>, <<"/mnt", "/dev">>, "--bind")
BindPts    == Crit("mount", <<"/dev", "/pts">>, <<"/mnt", "/dev", "/pts">>, "--bind")
BindProc   == Crit("mount", <<"none">>, <<"/mnt", "/proc">>, "-t proc")
BindSys    == Crit("mount", <<"none">>, <<"/mnt", "/sys">>, "-t sysfs")
BindRun    == Crit("mount", <<"tmpfs">>, <<"/mnt", "/run">>, "-t tmpfs")
SYS_EFI    == <<"/sys", "/firmware", "/efi">>
MNT_SYS_EFI == <<"/mnt">> \o SYS_EFI

\* A: mount_chroot_dirs; hostEfi is os.path.exists("/sys/firmware/efi")
mount_chroot_dirs_A(st, hostEfi) ==
    LET s1 == RunAll(st, <<Crit("mkdir -p", NoStr, <<"/mnt", "/dev">>, "chroot dirs"),
                            BindDev, BindPts, BindProc, BindSys, BindRun>>)
    IN  IF hostEfi
        THEN RunAll(s1, <<Best("mount", <<"efivarfs">>, SYS_EFI \o <<"/efivars">>, "-t efivarfs"),
                          Best("mkdir -p", NoStr, MNT_SYS_EFI, ""),
                          Best("mount", SYS_EFI, MNT_SYS_EFI, "--bind")>>)
        ELSE s1

\* B: mount_chroot_dirs
mount_chroot_dirs_B(st) == RunAll(st, <<BindDev, BindPts, BindProc, BindSys, BindRun>>)

Umount(at) == Best("umount -l", NoStr, at, "")

\* A: umount_chroot_dirs
umount_chroot_dirs_A(st) ==
    RunAll(st, <<Umount(MNT_SYS_EFI), Umount(<<"/mnt", "/dev", "/pts">>),
                 Umount(<<"/mnt", "/dev">>), Umount(<<"/mnt", "/proc">>),
                 Umount(<<"/mnt", "/sys">>), Umount(<<"/mnt", "/run">>)>>)

\* B: umount_chroot_dirs
umount_chroot_dirs_B(st) ==
    RunAll(st, <<Umount(<<"/mnt", "/dev", "/pts">>), Umount(<<"/mnt", "/dev">>),
                 Umount(<<"/mnt", "/proc">>), Umount(<<"/mnt", "/sys">>),
                 Umount(<<"/mnt", "/run">>)>>)

\* ------------------------------------------------------------------ release of a disk's consumers
Contains(s, tok) == \E i \in DOMAIN s : s[i] = tok

\* sorted(xs, key=len, reverse=True): stable, longest string first
RECURSIVE InsertByLen(_, _)
InsertByLen(x, xs) ==
    IF xs = <<>> THEN <<x>>
    ELSE IF StrLen(Head(xs)) >= StrLen(x) THEN <<Head(xs)>> \o InsertByLen(x, Tail(xs))
    ELSE <<x>> \o xs

RECURSIVE SortedByLenDesc(_)
SortedByLenDesc(xs) ==
    IF xs = <<>> THEN <<>>
    ELSE InsertByLen(xs[Len(xs)], SortedByLenDesc(SubSeq(xs, 1, Len(xs) - 1)))

MapSeq(xs, Op(_)) == [i \in DOMAIN xs |-> Op(xs[i])]

\* mount | grep '/mnt' | awk '{print $3}'
MntPoints(tab) ==
    MapSeq(SelectSeq(tab, LAMBDA m : Contains(m.dev, "/mnt") \/ Contains(m.at, "/mnt")),
           LAMBDA m : m.at)

\* lsblk NAME of a /dev/ path: the path without its /dev/ token
DevName(dev) == IF dev # <<>> /\ Head(dev) = "/dev/" THEN Tail(dev) ELSE dev

\* disk.replace('/dev/', '')
DiskName(disk) == SelectSeq(disk, LAMBDA t : t # "/dev/")

\* lsblk -ln -o NAME,MOUNTPOINT: the mounted block devices
MountedBlockDevs(tab) ==
    MapSeq(SelectSeq(tab, LAMBDA m : m.dev # <<>> /\ Head(m.dev) = "/dev/"),
           LAMBDA m : DevName(m.dev))

\* the swap areas /proc/swaps lists on partitions of the disk, in lsblk order
SwapParts(st, disk) ==
    SelectSeq(MapSeq([i \in 1..6 |-> i], LAMBDA n : PartPath(disk, n)),
              LAMBDA d : \E n \in st.parts : d = PartPath(disk, n) /\ \E s \in st.swaps : IsPrefix(d, s))

\* unmount_disk_partitions_A with the unmounts of its first step critical
unmount_disk_partitions_A_CriticalFirst(st, disk) ==
    LET s1 == RunAll(st, MapSeq(SortedByLenDesc(MntPoints(st.mtab)),
                                LAMBDA m : Crit("umount -lf", NoStr, m, "")))
        s2 == RunAll(s1, MapSeq(SwapParts(s1, disk),
                                LAMBDA d : Best("swapoff", d, NoStr, "")))
        s3 == RunAll(s2, MapSeq(s2.crypts,
                                LAMBDA m : Best("cryptsetup close", m.name, NoStr, "")))
        s4 == run_cmd(s3, Best("vgchange -an", NoStr, NoStr, ""))
    IN  RunAll(s4, MapSeq(SelectSeq(MountedBlockDevs(s4.mtab),
                                    LAMBDA n : IsPrefix(DiskName(disk), n)),
                          LAMBDA n : Best("umount -lf", <<"/dev/">> \o n, NoStr, "")))

\* A: unmount_disk_partitions
unmount_disk_partitions_A(st, disk) ==
    LET s1 == RunAll(st, MapSeq(SortedByLenDesc(MntPoints(st.mtab)),
                                LAMBDA m : Best("umount -lf", NoStr, m, "")))
        s2 == RunAll(s1, MapSeq(SwapParts(s1, disk),
                                LAMBDA d : Best("swapoff", d, NoStr, "")))
        s3 == RunAll(s2, MapSeq(s2.crypts,
                                LAMBDA m : Best("cryptsetup close", m.name, NoStr, "")))
        s4 == run_cmd(s3, Best("vgchange -an", NoStr, NoStr, ""))
    IN  RunAll(s4, MapSeq(SelectSeq(MountedBlockDevs(s4.mtab),
                                    LAMBDA n : IsPrefix(DiskName(disk), n)),
                          LAMBDA n : Best("umount -lf", <<"/dev/">> \o n, NoStr, "")))

\* unmount_disk_partitions_B with critical unmounts
unmount_disk_partitions_B_Critical(st, disk) ==
    RunAll(st, MapSeq(SelectSeq(MountedBlockDevs(st.mtab),
                                LAMBDA n : IsPrefix(DiskName(disk), n)),
                      LAMBDA n : Crit("umount", <<"/dev/">> \o n, NoStr, "")))

\* B: unmount_disk_partitions
unmount_disk_partitions_B(st, disk) ==
    RunAll(st, MapSeq(SelectSeq(MountedBlockDevs(st.mtab),
                                LAMBDA n : IsPrefix(DiskName(disk), n)),
                      LAMBDA n : Best("umount", <<"/dev/">> \o n, NoStr, "")))

\* ------------------------------------------------------------------ partitioning
\* sgdisk -n num:0:size -t num:type disk
Sgdisk(num, size, type, disk) ==
    Crit("sgdisk -n", disk, NoStr, [num |-> num, size |-> size, type |-> type])

Wipe(disk) == <<Crit("wipefs -a", disk, NoStr, ""), Crit("sgdisk -Z", disk, NoStr, "")>>

Probe(disk) == <<Crit("partprobe", disk, NoStr, ""), Crit("lsblk", disk, NoStr, "")>>

\* PartitionPlan_A with the swap partition created before root
PartitionPlan_A_SwapFirst(disk, uefi, use_swap, swap_size) ==
    LET n == IF uefi THEN 2 ELSE 1
    IN  (IF uefi THEN <<Sgdisk(1, "+512M", "ef00", disk)>> ELSE <<>>)
        \o <<Sgdisk(n, "+1G", "8300", disk)>>
        \o (IF use_swap
            THEN <<Sgdisk(n + 1, "+" \o swap_size, "8200", disk), Sgdisk(n + 2, "+20G", "8300", disk)>>
            ELSE <<Sgdisk(n + 1, "0", "8300", disk)>>)

\* A: the partition plan of main and of auto_partition_disk (the same lines twice)
PartitionPlan_A(disk, uefi, use_swap, swap_size) ==
    IF uefi
    THEN <<Sgdisk(1, "+512M", "ef00", disk), Sgdisk(2, "+1G", "8300", disk)>>
         \o (IF use_swap
             THEN <<Sgdisk(3, "+20G", "8300", disk), Sgdisk(4, "+" \o swap_size, "8200", disk)>>
             ELSE <<Sgdisk(3, "0", "8300", disk)>>)
    ELSE <<Sgdisk(1, "+1G", "8300", disk)>>
         \o (IF use_swap
             THEN <<Sgdisk(2, "+20G", "8300", disk), Sgdisk(3, "+" \o swap_size, "8200", disk)>>
             ELSE <<Sgdisk(2, "0", "8300", disk)>>)

\* PartitionPlan_B with a /boot partition
PartitionPlan_B_WithBoot(disk, uefi, use_swap, swap_size) ==
    PartitionPlan_A(disk, uefi, use_swap, swap_size)

\* PartitionPlan_B with the root partition taking the rest of the disk even
\* when swap was requested
PartitionPlan_B_RootUncapped(disk, uefi, use_swap, swap_size) ==
    (IF uefi THEN <<Sgdisk(1, "+512M", "ef00", disk)>> ELSE <<>>)
    \o <<Sgdisk(IF uefi THEN 2 ELSE 1, "0", "8300", disk)>>
    \o (IF use_swap THEN <<Sgdisk(IF uefi THEN 3 ELSE 2, "+" \o swap_size, "8200", disk)>> ELSE <<>>)

\* B: the partition plan of auto_partition_disk
PartitionPlan_B(disk, uefi, use_swap, swap_size) ==
    IF uefi
    THEN <<Sgdisk(1, "+512M", "ef00", disk)>>
         \o (IF use_swap
             THEN <<Sgdisk(2, "+20G", "8300", disk), Sgdisk(3, "+" \o swap_size, "8200", disk)>>
             ELSE <<Sgdisk(2, "0", "8300", disk)>>)
    ELSE IF use_swap
         THEN <<Sgdisk(1, "+20G", "8300", disk), Sgdisk(2, "+" \o swap_size, "8200", disk)>>
         ELSE <<Sgdisk(1, "0", "8300", disk)>>

Mkfs(type, dev) == Crit("mkfs", dev, NoStr, type)
Mount(dev, at) == Crit("mount", dev, at, "")
Mkdir(at) == Crit("mkdir -p", NoStr, at, "")
SwapOn(dev) == <<Crit("mkswap", dev, NoStr, ""), Crit("swapon", dev, NoStr, "")>>

\* A: main, "Format and mount all partitions (no encryption)"
FormatMount_A(disk, uefi, use_swap) ==
    IF uefi
    THEN LET efi_part == PartPath(disk, 1)
             boot_part == PartPath(disk, 2)
             root_part == PartPath(disk, 3)
         IN  <<Mkfs("vfat", efi_part), Mkfs("ext4", root_part), Mount(root_part, MNT),
               Mkdir(MNT_BOOT), Mount(boot_part, MNT_BOOT),
               Mkdir(MNT_EFI), Mount(efi_part, MNT_EFI)>>
             \o (IF use_swap THEN SwapOn(PartPath(disk, 4)) ELSE <<>>)
    ELSE LET boot_part == PartPath(disk, 1)
             root_part == PartPath(disk, 2)
         IN  <<Mkfs("ext4", boot_part), Mkfs("ext4", root_part), Mount(root_part, MNT),
               Mkdir(MNT_BOOT), Mount(boot_part, MNT_BOOT)>>
             \o (IF use_swap THEN SwapOn(PartPath(disk, 3)) ELSE <<>>)

\* A: format_auto_partitions
format_auto_partitions_A(disk, uefi, use_swap) ==
    IF uefi
    THEN LET efi == PartPath(disk, 1)
             boot == PartPath(disk, 2)
             root == PartPath(disk, 3)
         IN  <<Mkfs("vfat", efi), Mkfs("ext4", boot), Mount(root, MNT),
               Mkdir(MNT_BOOT), Mount(boot, MNT_BOOT),
               Mkdir(MNT_EFI), Mount(efi, MNT_EFI)>>
             \o (IF use_swap THEN SwapOn(PartPath(disk, 4)) ELSE <<>>)
    ELSE LET boot == PartPath(disk, 1)
             root == PartPath(disk, 2)
         IN  <<Mkfs("ext4", boot), Mount(root, MNT), Mkdir(MNT_BOOT), Mount(boot, MNT_BOOT)>>
             \o (IF use_swap THEN SwapOn(PartPath(disk, 3)) ELSE <<>>)

\* B: format_auto_partitions
format_auto_partitions_B(disk, uefi, use_swap) ==
    IF uefi
    THEN LET efi == PartPath(disk, 1)
             root == PartPath(disk, 2)
         IN  <<Mkfs("vfat", efi), Mkfs("ext4", root), Mount(root, MNT),
               Mkdir(MNT_EFI), Mount(efi, MNT_EFI)>>
             \o (IF use_swap THEN SwapOn(PartPath(disk, 3)) ELSE <<>>)
    ELSE LET root == PartPath(disk, 1)
         IN  <<Mkfs("ext4", root), Mount(root, MNT)>>
             \o (IF use_swap THEN SwapOn(PartPath(disk, 2)) ELSE <<>>)

\* auto_partition_disk releasing the disk's consumers before it asks for the
\* confirmation
auto_partition_disk_UnmountFirst(st, prog, disk, uefi, use_swap, swap_size, confirm) ==
    LET s1 == IF prog = "A" THEN unmount_disk_partitions_A(st, disk)
              ELSE unmount_disk_partitions_B(st, disk)
        s2 == Ask(s1, "Type 'YES' to continue: ", confirm)
    IN  IF confirm # "YES" THEN Exit(s2, 0)
        ELSE RunAll(s2, Wipe(disk)
                        \o (IF prog = "A" THEN PartitionPlan_A(disk, uefi, use_swap, swap_size)
                            ELSE PartitionPlan_B(disk, uefi, use_swap, swap_size))
                        \o Probe(disk))

\* auto_partition_disk wiping the disk before it releases its partitions
auto_partition_disk_WipeFirst(st, prog, disk, uefi, use_swap, swap_size, confirm) ==
    LET s1 == Ask(st, "Type 'YES' to continue: ", confirm)
    IN  IF confirm # "YES" THEN Exit(s1, 0)
        ELSE LET s2 == RunAll(s1, Wipe(disk))
                 s3 == IF prog = "A" THEN unmount_disk_partitions_A(s2, disk)
                       ELSE unmount_disk_partitions_B(s2, disk)
             IN  RunAll(s3, (IF prog = "A" THEN PartitionPlan_A(disk, uefi, use_swap, swap_size)
                             ELSE PartitionPlan_B(disk, uefi, use_swap, swap_size))
                            \o Probe(disk))

\* A and B: auto_partition_disk; confirm is the answer to "Type 'YES' to continue: "
auto_partition_disk(st, prog, disk, uefi, use_swap, swap_size, confirm) ==
    LET s1 == Ask(st, "Type 'YES' to continue: ", confirm)
    IN  IF confirm # "YES" THEN Exit(s1, 0)
        ELSE LET s2 == IF prog = "A" THEN unmount_disk_partitions_A(s1, disk)
                       ELSE unmount_disk_partitions_B(s1, disk)
             IN  RunAll(s2, Wipe(disk)
                            \o (IF prog = "A" THEN PartitionPlan_A(disk, uefi, use_swap, swap_size)
                                ELSE PartitionPlan_B(disk, uefi, use_swap, swap_size))
                            \o Probe(disk))

\* ------------------------------------------------------------------ manual mode
\* the partition devices a user types in manual mode
TypedPart(n) == <<"/dev/", "s", "d", "b">> \o NumStr(n)

UmountDev(dev) == Best("umount -lf", dev, NoStr, "")

\* A: format_and_mount_manual, the loop over further partitions
ExtraCmds_A(extras) ==
    IF extras = <<>> THEN <<>>
    ELSE LET e == Head(extras)
         IN  <<UmountDev(e.part), Mkfs(e.fstype, e.part),
               Mkdir(MNT \o e.mnt), Mount(e.part, MNT \o e.mnt)>>

RECURSIVE Extras_A(_, _)
Extras_A(st, extras) ==
    LET s1 == Ask(st, "Enter another partition device (blank to finish): ",
                  IF extras = <<>> THEN NoStr ELSE Head(extras).part)
    IN  IF extras = <<>> THEN s1
        ELSE Extras_A(RunAll(Ask(Ask(s1, "Mount point (e.g., /home): ", Head(extras).mnt),
                                     "Filesystem type (ext4, xfs, etc.): ", Head(extras).fstype),
                                 ExtraCmds_A(extras)),
                      Tail(extras))

\* A: format_and_mount_manual.  luks_root_ready and root_for_crypt are what
\* the function reads from its caller's local variables; a is the record of
\* the user's answers.
format_and_mount_manual_A(st, uefi, luks_root_ready, root_for_crypt, a) ==
    LET s0 == run_cmd(st, Crit("lsblk", NoStr, NoStr, "-o NAME,SIZE,TYPE,MOUNTPOINT"))
        s1 == IF luks_root_ready /\ root_for_crypt # NoStr
              THEN LET nofs == ~\E f \in s0.fs : f.dev = root_for_crypt
                       q == IF nofs THEN Ask(s0, "Do you want to create an ext4 filesystem", a.mkfs)
                            ELSE s0
                       r == IF nofs /\ a.mkfs = "y" THEN run_cmd(q, Mkfs("ext4", root_for_crypt))
                            ELSE q
                   IN  run_cmd(r, Mount(root_for_crypt, MNT))
              ELSE RunAll(Ask(Ask(s0, "Enter the device for the root partition", a.root),
                              "Filesystem type for root", a.root_fstype),
                          <<UmountDev(a.root), Mkfs(a.root_fstype, a.root), Mount(a.root, MNT)>>)
        s2 == IF uefi
              THEN LET q == Ask(s1, "Enter the device for the EFI partition", a.efi)
                   IN  IF a.efi # NoStr
                       THEN RunAll(q, <<UmountDev(a.efi), Mkfs("vfat", a.efi),
                                        Mkdir(MNT_EFI), Mount(a.efi, MNT_EFI)>>)
                       ELSE q
              ELSE s1
        s3 == Ask(s2, "Did you set up LUKS encryption for root? [y/N]: ", a.luks)
        s4 == IF a.luks = "y" THEN s3
              ELSE Ask(s3, "Do you have a separate /boot partition? [y/N]: ", a.boot)
        s5 == IF a.luks = "y" \/ a.boot = "y"
              THEN RunAll(Ask(Ask(s4, "Enter the device for the /boot partition", a.boot_part),
                              "Filesystem type for /boot", a.boot_fstype),
                          <<UmountDev(a.boot_part), Mkfs(a.boot_fstype, a.boot_part),
                            Mkdir(MNT_BOOT), Mount(a.boot_part, MNT_BOOT)>>)
              ELSE s4
        s6 == Ask(s5, "Enter the device for the swap partition (leave blank if none): ", a.swap)
        s7 == IF a.swap # NoStr
              THEN RunAll(s6, <<Best("swapoff", a.swap, NoStr, "")>> \o SwapOn(a.swap))
              ELSE s6
    IN  Extras_A(s7, a.extras)

\* B: format_and_mount_manual, the loop that reads and formats the entries
RECURSIVE ReadEntries_B(_, _)
ReadEntries_B(st, entries) ==
    LET s1 == Ask(st, "Enter partition device (e.g., /dev/sda1, blank to finish): ",
                  IF entries = <<>> THEN NoStr ELSE Head(entries).part)
    IN  IF entries = <<>> THEN s1
        ELSE LET e == Head(entries)
                 s2 == Ask(Ask(s1, "Mount point (e.g., /, /home, swap, /boot/efi): ", e.mnt),
                           "Filesystem type (ext4, vfat, swap, etc.): ", e.fstype)
             IN  ReadEntries_B(IF e.fstype = "swap" THEN RunAll(s2, SwapOn(e.part))
                               ELSE run_cmd(s2, Mkfs(e.fstype, e.part)),
                               Tail(entries))

\* B: format_and_mount_manual, "Mount all partitions"
RECURSIVE MountEntries_B(_)
MountEntries_B(partitions) ==
    IF partitions = <<>> THEN <<>>
    ELSE LET e == Head(partitions)
         IN  (IF e.mnt = <<"/">> THEN <<Mount(e.part, MNT)>>
              ELSE <<Mkdir(MNT \o e.mnt), Mount(e.part, MNT \o e.mnt)>>)
             \o MountEntries_B(Tail(partitions))

\* B: format_and_mount_manual
format_and_mount_manual_B(st, entries) ==
    LET s0 == run_cmd(st, Crit("lsblk", NoStr, NoStr, "-o NAME,SIZE,TYPE,MOUNTPOINT"))
        s1 == ReadEntries_B(s0, entries)
        partitions == SelectSeq(entries, LAMBDA e : e.fstype # "swap" /\ e.mnt # <<"swap">>)
    IN  RunAll(s1, MountEntries_B(partitions))

\* A and B: manual_partition_disk
manual_partition_disk(st, disk) ==
    run_cmd(Ask(st, "Press Enter to continue...", NoStr), Crit("cfdisk", disk, NoStr, ""))

\* ------------------------------------------------------------------ bootloader
\* the firmware states of the host:
\*   bios     no /sys/firmware/efi
\*   uefi     /sys/firmware/efi without an efivars directory
\*   uefi-ro  efivars present, firmware variables not writable
\*   uefi-rw  efivars present and writable
Firmware == {"bios", "uefi", "uefi-ro", "uefi-rw"}

\* detect_uefi
detect_uefi(fw) == fw # "bios"

\* os.path.exists("/sys/firmware/efi/efivars")
HostEfivars(fw) == fw \in {"uefi-ro", "uefi-rw"}

\* subprocess.run(cmd, shell=True) outside run_cmd: the status is nonzero when
\* the command cannot succeed on this system (~ok) or the environment fails it
Sub(st, c, ok) == run_cmd_ok(st, [c |-> [c EXCEPT !.by = BySubprocess], check |-> FALSE], ok)

LastRc(st) == st.log[Len(st.log)].rc

\* lsblk -no FSTYPE path: the filesystem of the device mounted last at path
FsTypeAt(st, at) ==
    LET ms == SelectSeq(st.mtab, LAMBDA m : m.at = at)
    IN  IF ms = <<>> THEN "" ELSE
        LET d == ms[Len(ms)].dev
        IN  IF \E f \in st.fs : f.dev = d THEN (CHOOSE f \in st.fs : f.dev = d).type ELSE ""

GrubStandard  == Cmd("chroot grub-install", NoStr, NoStr, "--bootloader-id=Void")
GrubRemovable == Cmd("chroot grub-install", NoStr, NoStr, "--removable")
GrubBios(disk) == Cmd("chroot grub-install", disk, NoStr, "--target=i386-pc")
GrubMkconfig  == Cmd("chroot grub-mkconfig", NoStr, NoStr, "-o /boot/grub/grub.cfg")
XbpsGrubEfi   == Cmd("xbps-install", NoStr, MNT, "grub-x86_64-efi efibootmgr")
XbpsGrub      == Cmd("xbps-install", NoStr, MNT, "grub")

\* GrubUefi_A without the fallback after a failed standard install
GrubUefi_A_NoFallback(st, fw) ==
    LET s1 == Sub(st, Cmd("chroot test", NoStr, SYS_EFI \o <<"/efivars">>, "-d"),
                  HostEfivars(fw) /\ IsMounted(st, MNT_SYS_EFI))
    IN  IF LastRc(s1) # 0 /\ ~HostEfivars(fw)
        THEN run_cmd(s1, [c |-> GrubRemovable, check |-> TRUE])
        ELSE Sub(s1, GrubStandard, fw = "uefi-rw")

\* GrubUefi_A installing in removable mode whatever the standard install returned
GrubUefi_A_RemovableAlways(st, fw) ==
    LET s1 == Sub(st, Cmd("chroot test", NoStr, SYS_EFI \o <<"/efivars">>, "-d"),
                  HostEfivars(fw) /\ IsMounted(st, MNT_SYS_EFI))
        efivars_available == LastRc(s1) = 0
    IN  IF ~efivars_available /\ ~HostEfivars(fw)
        THEN run_cmd(s1, [c |-> GrubRemovable, check |-> TRUE])
        ELSE run_cmd(Sub(s1, GrubStandard, fw = "uefi-rw"), [c |-> GrubRemovable, check |-> TRUE])

\* A: install_bootloader, the UEFI branch after the three checks passed
GrubUefi_A(st, fw) ==
    LET s1 == Sub(st, Cmd("chroot test", NoStr, SYS_EFI \o <<"/efivars">>, "-d"),
                  HostEfivars(fw) /\ IsMounted(st, MNT_SYS_EFI))
        efivars_available == LastRc(s1) = 0
    IN  IF ~efivars_available /\ ~HostEfivars(fw)
        THEN run_cmd(s1, [c |-> GrubRemovable, check |-> TRUE])
        ELSE LET s2 == Sub(s1, GrubStandard, fw = "uefi-rw")
             IN  IF LastRc(s2) # 0
                 THEN run_cmd(s2, [c |-> GrubRemovable, check |-> TRUE])
                 ELSE Sub(s2, Cmd("chroot efibootmgr", NoStr, NoStr, "-v"), TRUE)

\* A: install_bootloader; efi_part answers the prompt for an EFI partition
install_bootloader_A(st, disk, fw, efi_part) ==
    LET s0 == mount_chroot_dirs_A(st, detect_uefi(fw))
    IN  IF s0.exit # Running THEN s0
        ELSE IF detect_uefi(fw)
        THEN LET s1 == run_cmd(s0, [c |-> XbpsGrubEfi, check |-> FALSE])
                 asked == ~IsMounted(s1, MNT_EFI)
                 s2 == IF asked
                       THEN LET q == Ask(s1, "Enter EFI partition to mount at /mnt/boot/efi", efi_part)
                            IN  IF efi_part # NoStr
                                THEN RunAll(q, <<Mkdir(MNT_EFI), Mount(efi_part, MNT_EFI)>>)
                                ELSE q
                       ELSE s1
             IN  IF s2.exit # Running THEN s2
                 ELSE IF asked /\ efi_part = NoStr THEN umount_chroot_dirs_A(s2)
                 ELSE IF FsTypeAt(s2, MNT_EFI) # "vfat" THEN umount_chroot_dirs_A(s2)
                 ELSE LET s3 == Sub(s2, Cmd("chroot mountpoint", NoStr, <<"/boot", "/efi">>, "-q"),
                                    IsMounted(s2, MNT_EFI))
                      IN  IF LastRc(s3) # 0 THEN umount_chroot_dirs_A(s3)
                          ELSE umount_chroot_dirs_A(
                                   run_cmd(GrubUefi_A(s3, fw), [c |-> GrubMkconfig, check |-> TRUE]))
        ELSE umount_chroot_dirs_A(
                 RunAll(s0, <<[c |-> XbpsGrub, check |-> TRUE],
                              [c |-> GrubBios(disk), check |-> TRUE],
                              [c |-> GrubMkconfig, check |-> TRUE]>>))

\* install_bootloader_modular not reading FORCE_REMOVABLE
install_bootloader_modular_IgnoresForce(st, disk, uefi, force, vm, efi_part) ==
    IF uefi
    THEN LET s1 == run_cmd(st, Best("chroot xbps-install", NoStr, NoStr, "grub-x86_64-efi efibootmgr"))
             use_removable0 == vm
             asked == ~IsMounted(s1, MNT_EFI) /\ ~use_removable0
             s2 == IF asked
                   THEN LET q == Ask(s1, "Enter EFI partition to mount at /mnt/boot/efi", efi_part)
                        IN  IF efi_part # NoStr
                            THEN RunAll(q, <<Best("mkdir -p", NoStr, MNT_EFI, ""),
                                             Mount(efi_part, MNT_EFI)>>)
                            ELSE q
                   ELSE s1
             use_removable == use_removable0 \/ (asked /\ efi_part = NoStr)
         IN  IF use_removable
             THEN RunAll(s2, <<[c |-> GrubRemovable, check |-> FALSE],
                               [c |-> GrubMkconfig, check |-> FALSE]>>)
             ELSE run_cmd(s2, [c |-> GrubMkconfig, check |-> FALSE])
    ELSE RunAll(st, <<Crit("chroot xbps-install", NoStr, NoStr, "grub"),
                      [c |-> GrubBios(disk), check |-> TRUE],
                      [c |-> GrubMkconfig, check |-> FALSE]>>)

\* A: install_bootloader_modular; force and vm are the globals FORCE_REMOVABLE
\* and VM_DETECTED
install_bootloader_modular(st, disk, uefi, force, vm, efi_part) ==
    IF uefi
    THEN LET s1 == run_cmd(st, Best("chroot xbps-install", NoStr, NoStr, "grub-x86_64-efi efibootmgr"))
             use_removable0 == force \/ vm
             asked == ~IsMounted(s1, MNT_EFI) /\ ~use_removable0
             s2 == IF asked
                   THEN LET q == Ask(s1, "Enter EFI partition to mount at /mnt/boot/efi", efi_part)
                        IN  IF efi_part # NoStr
                            THEN RunAll(q, <<Best("mkdir -p", NoStr, MNT_EFI, ""),
                                             Mount(efi_part, MNT_EFI)>>)
                            ELSE q
                   ELSE s1
             use_removable == use_removable0 \/ (asked /\ efi_part = NoStr)
         IN  IF use_removable
             THEN RunAll(s2, <<[c |-> GrubRemovable, check |-> FALSE],
                               [c |-> GrubMkconfig, check |-> FALSE]>>)
             ELSE run_cmd(s2, [c |-> GrubMkconfig, check |-> FALSE])
    ELSE RunAll(st, <<Crit("chroot xbps-install", NoStr, NoStr, "grub"),
                      [c |-> GrubBios(disk), check |-> TRUE],
                      [c |-> GrubMkconfig, check |-> FALSE]>>)

\* install_bootloader_B generating the configuration after the session was released
install_bootloader_B_ConfigAfterRelease(st, disk, fw, efi_part) ==
    LET s0 == mount_chroot_dirs_B(st)
        s1 == IF detect_uefi(fw)
              THEN LET q == Ask(run_cmd(s0, [c |-> XbpsGrubEfi, check |-> TRUE]),
                                "Enter EFI partition (or leave blank if already mounted)", efi_part)
                       r == IF efi_part # NoStr
                            THEN RunAll(q, <<Mkdir(MNT_EFI), Mount(efi_part, MNT_EFI)>>)
                            ELSE q
                   IN  run_cmd_ok(r, [c |-> GrubStandard, check |-> TRUE], fw = "uefi-rw")
              ELSE RunAll(s0, <<[c |-> XbpsGrub, check |-> TRUE],
                                [c |-> GrubBios(disk), check |-> TRUE]>>)
    IN  run_cmd(umount_chroot_dirs_B(s1), [c |-> GrubMkconfig, check |-> TRUE])

\* B: install_bootloader
install_bootloader_B(st, disk, fw, efi_part) ==
    LET s0 == mount_chroot_dirs_B(st)
        s1 == IF detect_uefi(fw)
              THEN LET q == Ask(run_cmd(s0, [c |-> XbpsGrubEfi, check |-> TRUE]),
                                "Enter EFI partition (or leave blank if already mounted)", efi_part)
                       r == IF efi_part # NoStr
                            THEN RunAll(q, <<Mkdir(MNT_EFI), Mount(efi_part, MNT_EFI)>>)
                            ELSE q
                   IN  run_cmd_ok(r, [c |-> GrubStandard, check |-> TRUE], fw = "uefi-rw")
              ELSE RunAll(s0, <<[c |-> XbpsGrub, check |-> TRUE],
                                [c |-> GrubBios(disk), check |-> TRUE]>>)
    IN  umount_chroot_dirs_B(run_cmd(s1, [c |-> GrubMkconfig, check |-> TRUE]))

\* ------------------------------------------------------------------ the other stages
\* the packages detect_hardware can recommend that the scripts act on
Hardware == {{}, {"NetworkManager", "bluez", "nvidia"}}

Xbps(pkgs) == Crit("xbps-install", NoStr, MNT, pkgs)
LnSv(sv) == Best("ln -sf", NoStr, MNT, sv)

\* check_dependencies and setup_bootstrap_repos
Bootstrap(st, missing) ==
    RunAll(st, (IF missing THEN <<Best("xbps-install", NoStr, NoStr, "-S"),
                                  Crit("xbps-install", NoStr, NoStr, "-y deps")>>
                ELSE <<>>)
               \o <<Best("xbps-install", NoStr, NoStr, "-Sy void-repo-nonfree"),
                    Crit("xbps-install", NoStr, NoStr, "-S")>>)

\* A: install_base
install_base_A(st) == run_cmd(st, Xbps("base-system xorg"))

\* A and B: setup_mirrors
setup_mirrors(st) == run_cmd(st, Mkdir(<<"/mnt", "/etc", "/xbps.d">>))

\* A: install_hardware_packages
install_hardware_packages(st, hw) ==
    IF hw = {} THEN st
    ELSE RunAll(st, <<Xbps("hardware")>>
                    \o (IF "NetworkManager" \in hw THEN <<LnSv("NetworkManager")>> ELSE <<>>)
                    \o (IF "bluez" \in hw THEN <<LnSv("bluetoothd")>> ELSE <<>>)
                    \o (IF "nvidia" \in hw
                        THEN <<Best("mkdir -p", NoStr, <<"/mnt", "/etc", "/modprobe.d">>, ""),
                               Best("echo", NoStr, <<"/mnt", "/etc", "/modprobe.d">>, "blacklist nouveau")>>
                        ELSE <<>>))

Chroot(cmd) == Crit("chroot", NoStr, NoStr, cmd)

\* A: chroot_and_configure
chroot_and_configure(st) ==
    LET s1 == RunAll(st, <<Crit("cp", NoStr, <<"/mnt", "/etc">>, "resolv.conf"), Chroot("passwd")>>)
        s2 == RunAll(Ask(s1, "Enter timezone", "Europe/London"),
                     <<Chroot("ln -sf zoneinfo"), Chroot("hwclock --systohc")>>)
        s3 == RunAll(Ask(s2, "Enter locale", "en_US.UTF-8"),
                     <<Chroot("sed -i libc-locales"), Chroot("xbps-reconfigure -f glibc-locales")>>)
        s4 == run_cmd(Ask(s3, "Enter hostname: ", "void"),
                      Crit("echo", NoStr, <<"/mnt", "/etc">>, "hostname"))
    IN  RunAll(Ask(s4, "Enter username to create: ", "user"),
               <<Chroot("useradd"), Chroot("passwd user"), Chroot("xbps-install -Sy sudo NetworkManager"),
                 Chroot("ln -sf NetworkManager"), Chroot("ln -sf dbus")>>)

\* DESKTOP_ENVIRONMENTS, in key order
DesktopKeys == <<"xfce", "gnome", "kde", "none">>

\* the answers to "Select desktop environment": text that int() rejects, or a number
DesktopChoices ==
    {[num |-> FALSE, n |-> 0]} \cup {[num |-> TRUE, n |-> k] : k \in {0 - 1, 0, 1, 3, 5}}

\* int(choice) - 1 indexing list(DESKTOP_ENVIRONMENTS.keys()), with Python's
\* negative indices; ValueError and IndexError select "none"
DesktopKey(choice) ==
    IF ~choice.num THEN "none"
    ELSE LET idx == choice.n - 1
             n == Len(DesktopKeys)
         IN  IF idx >= 0 /\ idx < n THEN DesktopKeys[idx + 1]
             ELSE IF idx < 0 /\ idx >= 0 - n THEN DesktopKeys[n + idx + 1]
             ELSE "none"

DisplayManager(de_key) ==
    IF de_key = "xfce" THEN "lightdm" ELSE IF de_key = "gnome" THEN "gdm" ELSE "sddm"

\* A: install_desktop_and_sound
install_desktop_and_sound_A(st, choice) ==
    LET de_key == DesktopKey(choice)
        s1 == Ask(st, "Select desktop environment [number, default none]: ", choice)
    IN  RunAll(s1, (IF de_key # "none"
                    THEN <<Xbps(de_key), LnSv(DisplayManager(de_key))>>
                         \o (IF de_key = "kde"
                             THEN <<Best("chroot", NoStr, NoStr, "mkdir -p /etc/sddm.conf.d"),
                                    Best("chroot", NoStr, NoStr, "bash -c autologin.conf")>>
                             ELSE <<>>)
                    ELSE <<Xbps("sound")>>)
                   \o <<LnSv("dbus"), LnSv("pipewire")>>)

\* B: install_desktop_and_sound
install_desktop_and_sound_B(st, choice) ==
    LET de_key == DesktopKey(choice)
        s1 == Ask(st, "Select desktop environment [number, default none]: ", choice)
    IN  RunAll(s1, (IF de_key # "none"
                    THEN <<Xbps(de_key), LnSv(DisplayManager(de_key))>>
                    ELSE <<Xbps("sound")>>)
                   \o <<LnSv("dbus"), LnSv("pipewire"), LnSv("pulseaudio")>>)

\* B: install_base
install_base_B(st, hw) ==
    LET s1 == RunAll(st, <<Xbps("base-system xorg")>>
                         \o (IF "NetworkManager" \in hw THEN <<LnSv("NetworkManager")>> ELSE <<>>)
                         \o (IF "bluez" \in hw THEN <<LnSv("bluetoothd")>> ELSE <<>>))
    IN  IF "nvidia" \in hw
        THEN umount_chroot_dirs_B(
                 run_cmd(mount_chroot_dirs_B(s1),
                         Best("echo", NoStr, <<"/mnt", "/etc", "/modprobe.d">>, "blacklist nouveau")))
        ELSE s1

\* run_cmd(cmd, chroot=True)
ChrootBash(cmd) == Crit("chroot", NoStr, NoStr, cmd)

\* B: create_user
create_user_B(st) ==
    LET s1 == Ask(Ask(st, "Enter username: ", "user"), "Enter password: ", "secret")
        s2 == RunAll(mount_chroot_dirs_B(s1),
                     <<ChrootBash("useradd"), ChrootBash("chpasswd"), ChrootBash("xbps-install -Sy -y sudo"),
                       Best("mkdir -p", NoStr, <<"/mnt", "/etc", "/sudoers.d">>, ""),
                       Crit("echo", NoStr, <<"/mnt", "/etc", "/sudoers.d">>, "user ALL=(ALL) ALL")>>)
    IN  umount_chroot_dirs_B(s2)

\* ------------------------------------------------------------------ run_cmd(cmd, chroot=True)
\* command strings are sequences of characters; a word without quote, blank
\* or bar stands for one character
Quote == "'"
Blank == " "
Bar == "|"

\* f"chroot /mnt /bin/bash -c '{cmd}'"
ChrootWrap(c) ==
    <<"chroot", Blank, "/mnt", Blank, "/bin/bash", Blank, "-c", Blank, Quote>> \o c \o <<Quote>>

\* subprocess.run(cmd, shell=True): the words /bin/sh makes of the first
\* command of the line.  q: inside single quotes; esc: after an unquoted
\* backslash; w: the word so far; has: a word has begun; ws: the words made
RECURSIVE ShWords(_, _, _, _, _, _)
ShWords(s, q, esc, w, has, ws) ==
    LET done == IF has THEN ws \o <<w>> ELSE ws
    IN  IF s = <<>> THEN done
        ELSE LET c == Head(s)
                 r == Tail(s)
             IN  IF q THEN (IF c = Quote THEN ShWords(r, FALSE, FALSE, w, TRUE, ws)
                            ELSE ShWords(r, TRUE, FALSE, w \o <<c>>, TRUE, ws))
                 ELSE IF esc THEN ShWords(r, FALSE, FALSE, w \o <<c>>, TRUE, ws)
                 ELSE IF c = "\\" THEN ShWords(r, FALSE, TRUE, w, TRUE, ws)
                 ELSE IF c = Quote THEN ShWords(r, TRUE, FALSE, w, TRUE, ws)
                 ELSE IF c = Blank THEN ShWords(r, FALSE, FALSE, <<>>, FALSE, done)
                 ELSE IF c = Bar THEN done
                 ELSE ShWords(r, FALSE, FALSE, w \o <<c>>, TRUE, ws)

\* the line has a quote that is never closed: /bin/sh runs nothing
RECURSIVE Unterminated(_, _, _)
Unterminated(s, q, esc) ==
    IF s = <<>> THEN q
    ELSE IF q THEN Unterminated(Tail(s), Head(s) # Quote, FALSE)
    ELSE IF esc THEN Unterminated(Tail(s), FALSE, FALSE)
    ELSE Unterminated(Tail(s), Head(s) = Quote, Head(s) = "\\")

SyntaxError == <<"sh: syntax error">>

\* the argument of -c that chroot passes to /bin/bash inside the target root
Handed(line) ==
    IF Unterminated(line, FALSE, FALSE) THEN SyntaxError
    ELSE LET ws == ShWords(line, FALSE, FALSE, <<>>, FALSE, <<>>)
         IN  IF Len(ws) >= 5 THEN ws[5] ELSE <<>>

\* ------------------------------------------------------------------ state
VARIABLES
    prog,     \* "A" = src/voidinstall.py, "B" = src/void/voidinstall.py
    entry,    \* the function the run starts in
    study,    \* the stage whose inputs are drawn from their full sets
    pc,       \* the stage the run is at
    fw,       \* the host's firmware state
    vm,       \* detect_vm()
    force,    \* --force-removable
    euid,     \* os.geteuid()
    disk,     \* main's disk
    mode,     \* main's mode
    use_swap, \* main's use_swap
    log,      \* the commands and prompts issued so far, in order
    exit,     \* the process's exit status, Running while it runs
    mtab,     \* the mount table
    fs,       \* the filesystem signatures on devices
    swaps,    \* the active swap areas
    crypts,   \* the open encryption mappings
    parts,    \* the partition numbers in the target disk's table
    nfail,    \* how many commands the environment has failed so far
    cmd,      \* the command string given to run_cmd(cmd, chroot=True)
    handed    \* the string the shell inside the target root is handed

vars == <<prog, entry, study, pc, fw, vm, force, euid, disk, mode, use_swap,
          log, exit, mtab, fs, swaps, crypts, parts, nfail, cmd, handed>>

env == <<prog, entry, study, fw, vm, force, euid, cmd, handed>>

RECURSIVE KSub(_, _)
KSub(S, k) ==
    IF k <= 0 THEN {{}}
    ELSE LET P == KSub(S, k - 1) IN P \cup {p \cup {x} : p \in P, x \in S}

\* the sets of positions at which the environment may fail a command of the
\* stage that starts now
FailSets == KSub((Len(log) + 1)..(Len(log) + StageSpan), MaxFail - nfail)

\* the process and system state at the start of a stage
Cur(F) == [log |-> log, exit |-> exit, mtab |-> mtab, fs |-> fs, swaps |-> swaps,
           crypts |-> crypts, parts |-> parts, nfail |-> nfail, F |-> F]

\* the stage ended in state r; the run goes on at stage next unless it exited
Step(r, next) ==
    /\ log' = r.log
    /\ exit' = r.exit
    /\ mtab' = r.mtab
    /\ fs' = r.fs
    /\ swaps' = r.swaps
    /\ crypts' = r.crypts
    /\ parts' = r.parts
    /\ nfail' = r.nfail
    /\ pc' = IF r.exit # Running THEN "exited" ELSE next

SDA == select_disk(<<"s", "d", "a">>)

\* what a previous run of the installer on sda can have left behind
Leftover == <<[dev |-> PartPath(SDA, 2), at |-> MNT], [dev |-> PartPath(SDA, 1), at |-> MNT_BOOT]>>

ESP == TypedPart(1)

\* the same with a further partition of sda mounted outside /mnt
LeftoverElsewhere == Leftover \o <<[dev |-> PartPath(SDA, 4), at |-> <<"/media">>]>>

\* open encryption mappings as lsblk lists them (type crypt): one on a
\* partition of sda, one on a partition of another disk
CryptRoot == [name |-> <<"cryptroot">>, on |-> PartPath(SDA, 2)]
CryptElsewhere == [name |-> <<"cryptdata">>, on |-> TypedPart(5)]

\* the same with a partition of another disk mounted at /srv/mnt, a path
\* that grep '/mnt' matches and that is not under /mnt
LeftoverLookalike == Leftover \o <<[dev |-> TypedPart(1), at |-> <<"/srv", "/mnt">>]>>

\* a partition of the disk sdaa, whose name starts with the name of sda,
\* mounted outside /mnt
LeftoverNamesake == <<[dev |-> <<"/dev/", "s", "d", "a", "a", "1">>, at |-> <<"/media">>]>>

Init ==
    /\ prog \in {"A", "B"}
    /\ entry \in {"main", "install_bootloader", "auto_partition_disk", "unmount_disk_partitions"}
    /\ entry \in {"install_bootloader", "auto_partition_disk"} => prog = "A"
    /\ study \in {"prologue", "partition", "manual", "packages", "bootloader", "release"}
    /\ entry = "install_bootloader" => study = "bootloader"
    /\ entry = "auto_partition_disk" => study = "partition"
    /\ entry = "unmount_disk_partitions" <=> study = "release"
    /\ pc = "start"
    /\ fw \in IF study = "bootloader" THEN Firmware ELSE {"bios", "uefi-rw"}
    /\ vm \in IF study = "bootloader" /\ prog = "A" THEN BOOLEAN ELSE {FALSE}
    /\ force \in IF study = "bootloader" /\ prog = "A" /\ entry = "main" THEN BOOLEAN ELSE {FALSE}
    /\ euid \in IF study = "prologue" THEN {0, 1000} ELSE {0}
    /\ disk = IF entry = "main" THEN NoStr ELSE SDA
    /\ mode = ""
    /\ use_swap = FALSE
    /\ log = <<>>
    /\ exit = Running
    /\ mtab \in IF entry = "install_bootloader"
                THEN {<<[dev |-> TypedPart(3), at |-> MNT]>>,
                      <<[dev |-> TypedPart(3), at |-> MNT], [dev |-> ESP, at |-> MNT_EFI]>>}
                ELSE IF study \in {"prologue", "partition"} THEN {<<>>, Leftover}
                ELSE IF study = "release"
                THEN {<<>>, Leftover, LeftoverElsewhere, LeftoverLookalike, LeftoverNamesake}
                ELSE {<<>>}
    /\ fs \in IF entry = "install_bootloader"
              THEN {{[dev |-> ESP, type |-> "vfat"]}, {[dev |-> ESP, type |-> "ext4"]}}
              ELSE {{}}
    /\ swaps = IF mtab \in {Leftover, LeftoverElsewhere, LeftoverLookalike} THEN {PartPath(SDA, 3)} ELSE {}
    /\ crypts \in IF study = "release" THEN {<<>>, <<CryptRoot>>, <<CryptRoot, CryptElsewhere>>}
                  ELSE {<<>>}
    /\ parts = IF mtab \in {Leftover, LeftoverLookalike} THEN {1, 2, 3}
               ELSE IF mtab = LeftoverElsewhere THEN {1, 2, 3, 4} ELSE {}
    /\ nfail = 0
    /\ cmd = NoStr
    /\ handed = NoStr

\* ------------------------------------------------------------------ main
\* Prologue with the privilege check made after the disk was chosen
Prologue_LateRootCheck ==
    /\ entry = "main" /\ pc = "start"
    /\ \E F \in FailSets, missing \in (IF study = "prologue" THEN BOOLEAN ELSE {FALSE}),
          name \in (IF study \in {"prologue", "partition"} THEN DiskNames ELSE {<<"s", "d", "a">>}),
          m \in (IF study = "manual" THEN {"m"}
                 ELSE IF study = "bootloader" THEN {"a", "m"} ELSE {"a"}) :
          LET s0 == Cur(F)
              q == run_cmd(Bootstrap(s0, missing),
                           Crit("lsblk", NoStr, NoStr, "-d -o NAME,SIZE,MODEL"))
              r == Ask(Ask(q, "Enter the disk to install Void Linux on", name),
                       "Partitioning mode? [a]uto/[m]anual: ", m)
              s1 == IF euid # 0 THEN Exit(r, 1) ELSE r
          IN  /\ Step(s1, "partition")
              /\ disk' = IF s1.exit = Running THEN select_disk(name) ELSE disk
              /\ mode' = IF s1.exit = Running THEN m ELSE mode
    /\ UNCHANGED <<env, use_swap>>

\* A and B: main up to the partitioning mode
Prologue ==
    /\ entry = "main" /\ pc = "start"
    /\ \E F \in FailSets, missing \in (IF study = "prologue" THEN BOOLEAN ELSE {FALSE}),
          name \in (IF study \in {"prologue", "partition"} THEN DiskNames ELSE {<<"s", "d", "a">>}),
          m \in (IF study = "manual" THEN {"m"}
                 ELSE IF study = "bootloader" THEN {"a", "m"} ELSE {"a"}) :
          LET s0 == Cur(F)
              s1 == IF euid # 0 THEN Exit(s0, 1)
                    ELSE LET q == run_cmd(Bootstrap(s0, missing),
                                          Crit("lsblk", NoStr, NoStr, "-d -o NAME,SIZE,MODEL"))
                         IN  Ask(Ask(q, "Enter the disk to install Void Linux on", name),
                                 "Partitioning mode? [a]uto/[m]anual: ", m)
          IN  /\ Step(s1, "partition")
              /\ disk' = IF s1.exit = Running THEN select_disk(name) ELSE disk
              /\ mode' = IF s1.exit = Running THEN m ELSE mode
    /\ UNCHANGED <<env, use_swap>>

SwapAnswers == IF study = "partition" THEN {"y", "n"} ELSE {"n"}

\* the prompts for swap in main's auto branch
AskSwap(st, ans) ==
    LET s1 == Ask(st, "Create a swap partition? [y/N]: ", ans)
    IN  IF ans = "y" THEN Ask(s1, "Enter swap size (e.g., 2G, 512M): ", "2G") ELSE s1

\* A: main's auto branch
\* AutoA creating the partitions before it wipes the disk
AutoA_PartitionBeforeWipe ==
    /\ prog = "A" /\ entry = "main" /\ pc = "partition" /\ mode = "a"
    /\ \E F \in FailSets, ans \in SwapAnswers :
          LET swp == ans = "y"
              s1 == unmount_disk_partitions_A(AskSwap(Cur(F), ans), disk)
              s2 == RunAll(s1, PartitionPlan_A(disk, detect_uefi(fw), swp, "2G") \o Wipe(disk)
                               \o Probe(disk) \o FormatMount_A(disk, detect_uefi(fw), swp))
          IN  Step(s2, "chroot") /\ use_swap' = swp
    /\ UNCHANGED <<env, disk, mode>>

AutoA ==
    /\ prog = "A" /\ entry = "main" /\ pc = "partition" /\ mode = "a"
    /\ \E F \in FailSets, ans \in SwapAnswers :
          LET swp == ans = "y"
              s1 == unmount_disk_partitions_A(AskSwap(Cur(F), ans), disk)
              s2 == RunAll(s1, Wipe(disk) \o PartitionPlan_A(disk, detect_uefi(fw), swp, "2G")
                               \o Probe(disk) \o FormatMount_A(disk, detect_uefi(fw), swp))
          IN  Step(s2, "chroot") /\ use_swap' = swp
    /\ UNCHANGED <<env, disk, mode>>

Confirms == IF study = "partition" THEN {"YES", "yes", ""} ELSE {"YES"}

\* B: main's auto branch
AutoB ==
    /\ prog = "B" /\ entry = "main" /\ pc = "partition" /\ mode = "a"
    /\ \E F \in FailSets, ans \in SwapAnswers, confirm \in Confirms :
          LET swp == ans = "y"
              s1 == auto_partition_disk(AskSwap(Cur(F), ans), "B", disk, detect_uefi(fw), swp, "2G", confirm)
              s2 == RunAll(s1, format_auto_partitions_B(disk, detect_uefi(fw), swp))
          IN  Step(s2, "base") /\ use_swap' = swp
    /\ UNCHANGED <<env, disk, mode>>

\* A: auto_partition_disk followed by format_auto_partitions, called directly
CallAutoA ==
    /\ prog = "A" /\ entry = "auto_partition_disk" /\ pc = "start"
    /\ \E F \in FailSets, swp \in BOOLEAN, confirm \in Confirms, name \in DiskNames :
          LET d == select_disk(name)
              s1 == auto_partition_disk(Cur(F), "A", d, detect_uefi(fw), swp, "2G", confirm)
              s2 == RunAll(s1, format_auto_partitions_A(d, detect_uefi(fw), swp))
          IN  Step(s2, "done") /\ use_swap' = swp /\ disk' = d
    /\ UNCHANGED <<env, mode>>

\* the sequences of at most n distinct elements of S
InjSeqs(S, n) ==
    UNION {{q \in [1..k -> S] : \A i, j \in 1..k : q[i] = q[j] => i = j} : k \in 0..n}

DefaultAnswers ==
    [root |-> TypedPart(3), root_fstype |-> "ext4", efi |-> ESP, luks |-> "n", boot |-> "n",
     boot_part |-> TypedPart(2), boot_fstype |-> "ext4", swap |-> NoStr, extras |-> <<>>,
     mkfs |-> "n"]

ExtraPool == {[part |-> TypedPart(5), mnt |-> <<"/home">>, fstype |-> "ext4"],
              [part |-> TypedPart(6), mnt |-> <<"/home", "/data">>, fstype |-> "ext4"]}

\* the answers a user can give to A's format_and_mount_manual
Answers_A ==
    IF study = "manual"
    THEN {[DefaultAnswers EXCEPT !.efi = e, !.luks = l, !.boot = b, !.swap = w, !.extras = x] :
              e \in {NoStr, ESP}, l \in {"y", "n"}, b \in {"y", "n"},
              w \in {NoStr, TypedPart(4)}, x \in InjSeqs(ExtraPool, MaxExtra)}
    ELSE IF study = "bootloader"
    THEN {[DefaultAnswers EXCEPT !.efi = e] : e \in {NoStr, ESP}}
    ELSE {DefaultAnswers}

RootEntry == [part |-> TypedPart(3), mnt |-> <<"/">>, fstype |-> "ext4"]
BootEntry == [part |-> TypedPart(2), mnt |-> <<"/boot">>, fstype |-> "ext4"]
EfiEntry  == [part |-> ESP, mnt |-> <<"/boot", "/efi">>, fstype |-> "vfat"]
HomeEntry == [part |-> TypedPart(5), mnt |-> <<"/home">>, fstype |-> "ext4"]
SwapEntry == [part |-> TypedPart(4), mnt |-> <<"swap">>, fstype |-> "swap"]

\* the entries a user can type into B's format_and_mount_manual
Entries_B ==
    IF study = "manual"
    THEN InjSeqs({RootEntry, BootEntry, EfiEntry, HomeEntry, SwapEntry}, MaxExtra + 2)
    ELSE IF study = "bootloader" THEN {<<RootEntry>>, <<RootEntry, EfiEntry>>}
    ELSE {<<RootEntry, EfiEntry>>}

\* ManualA with luks_root_ready and root_for_crypt set among main's locals
ManualA_LuksRootReady ==
    /\ prog = "A" /\ entry = "main" /\ pc = "partition" /\ mode # "a"
    /\ \E F \in FailSets, a \in Answers_A :
          Step(format_and_mount_manual_A(manual_partition_disk(Cur(F), disk),
                                         detect_uefi(fw), TRUE, TypedPart(3), a),
               "chroot")
    /\ UNCHANGED <<env, disk, mode, use_swap>>

\* A: main's manual branch
ManualA ==
    /\ prog = "A" /\ entry = "main" /\ pc = "partition" /\ mode # "a"
    /\ \E F \in FailSets, a \in Answers_A :
          Step(format_and_mount_manual_A(manual_partition_disk(Cur(F), disk),
                                         detect_uefi(fw), FALSE, NoStr, a),
               "chroot")
    /\ UNCHANGED <<env, disk, mode, use_swap>>

\* B: main's manual branch
ManualB ==
    /\ prog = "B" /\ entry = "main" /\ pc = "partition" /\ mode # "a"
    /\ \E F \in FailSets, es \in Entries_B :
          Step(format_and_mount_manual_B(manual_partition_disk(Cur(F), disk), es), "base")
    /\ UNCHANGED <<env, disk, mode, use_swap>>

\* A: main, "Mount chroot dirs before any installation"
MountChrootA ==
    /\ prog = "A" /\ entry = "main" /\ pc = "chroot"
    /\ \E F \in FailSets : Step(mount_chroot_dirs_A(Cur(F), detect_uefi(fw)), "base")
    /\ UNCHANGED <<env, disk, mode, use_swap>>

HwChoices == IF study = "packages" THEN Hardware ELSE {{}}

DesktopAnswers == IF study = "packages" THEN DesktopChoices ELSE {[num |-> FALSE, n |-> 0]}

EfiAnswers == IF study = "bootloader" THEN {NoStr, ESP} ELSE {NoStr}

InstallBaseA ==
    /\ prog = "A" /\ entry = "main" /\ pc = "base"
    /\ \E F \in FailSets : Step(install_base_A(Cur(F)), "mirrors")
    /\ UNCHANGED <<env, disk, mode, use_swap>>

InstallBaseB ==
    /\ prog = "B" /\ entry = "main" /\ pc = "base"
    /\ \E F \in FailSets, hw \in HwChoices : Step(install_base_B(Cur(F), hw), "mirrors")
    /\ UNCHANGED <<env, disk, mode, use_swap>>

SetupMirrors ==
    /\ entry = "main" /\ pc = "mirrors"
    /\ \E F \in FailSets : Step(setup_mirrors(Cur(F)), IF prog = "A" THEN "hw" ELSE "user")
    /\ UNCHANGED <<env, disk, mode, use_swap>>

HwPackagesA ==
    /\ prog = "A" /\ entry = "main" /\ pc = "hw"
    /\ \E F \in FailSets, hw \in HwChoices :
          Step(install_hardware_packages(Cur(F), hw), "configure")
    /\ UNCHANGED <<env, disk, mode, use_swap>>

ChrootConfigureA ==
    /\ prog = "A" /\ entry = "main" /\ pc = "configure"
    /\ \E F \in FailSets : Step(chroot_and_configure(Cur(F)), "desktop")
    /\ UNCHANGED <<env, disk, mode, use_swap>>

CreateUserB ==
    /\ prog = "B" /\ entry = "main" /\ pc = "user"
    /\ \E F \in FailSets : Step(create_user_B(Cur(F)), "desktop")
    /\ UNCHANGED <<env, disk, mode, use_swap>>

DesktopA ==
    /\ prog = "A" /\ entry = "main" /\ pc = "desktop"
    /\ \E F \in FailSets, choice \in DesktopAnswers :
          Step(install_desktop_and_sound_A(Cur(F), choice), "bootloader")
    /\ UNCHANGED <<env, disk, mode, use_swap>>

DesktopB ==
    /\ prog = "B" /\ entry = "main" /\ pc = "desktop"
    /\ \E F \in FailSets, choice \in DesktopAnswers :
          Step(install_desktop_and_sound_B(Cur(F), choice), "bootloader")
    /\ UNCHANGED <<env, disk, mode, use_swap>>

\* A: main's last stage, install_bootloader_modular(disk, uefi)
BootloaderModularA ==
    /\ prog = "A" /\ entry = "main" /\ pc = "bootloader"
    /\ \E F \in FailSets, efi_part \in EfiAnswers :
          Step(install_bootloader_modular(Cur(F), disk, detect_uefi(fw), force, vm, efi_part), "done")
    /\ UNCHANGED <<env, disk, mode, use_swap>>

\* B: main's last stage, install_bootloader(disk)
BootloaderB ==
    /\ prog = "B" /\ entry = "main" /\ pc = "bootloader"
    /\ \E F \in FailSets, efi_part \in EfiAnswers :
          Step(install_bootloader_B(Cur(F), disk, fw, efi_part), "done")
    /\ UNCHANGED <<env, disk, mode, use_swap>>

\* A: install_bootloader(disk), called directly
CallInstallBootloaderA ==
    /\ prog = "A" /\ entry = "install_bootloader" /\ pc = "start"
    /\ \E F \in FailSets, efi_part \in EfiAnswers :
          Step(install_bootloader_A(Cur(F), disk, fw, efi_part), "done")
    /\ UNCHANGED <<env, disk, mode, use_swap>>

\* the sets of positions at which the environment may fail a command of a
\* call of unmount_disk_partitions: any of them
ReleaseFailSets == SUBSET ((Len(log) + 1)..(Len(log) + ReleaseSpan))

\* A and B: unmount_disk_partitions(disk), called directly, twice in succession
CallUnmount ==
    /\ entry = "unmount_disk_partitions" /\ pc \in {"start", "once"}
    /\ \E F \in ReleaseFailSets :
          Step(IF prog = "A" THEN unmount_disk_partitions_A(Cur(F), disk)
               ELSE unmount_disk_partitions_B(Cur(F), disk),
               IF pc = "start" THEN "once" ELSE "done")
    /\ UNCHANGED <<env, disk, mode, use_swap>>

Next ==
    \/ Prologue
    \/ AutoA
    \/ AutoB
    \/ CallAutoA
    \/ ManualA
    \/ ManualB
    \/ MountChrootA
    \/ InstallBaseA
    \/ InstallBaseB
    \/ SetupMirrors
    \/ HwPackagesA
    \/ ChrootConfigureA
    \/ CreateUserB
    \/ DesktopA
    \/ DesktopB
    \/ BootloaderModularA
    \/ BootloaderB
    \/ CallInstallBootloaderA
    \/ CallUnmount

Spec == Init /\ [][Next]_vars

\* ------------------------------------------------------------------ run_cmd(cmd, chroot=True) on its own
MaxCmdLen == 3

Chars == {Quote, Blank, Bar, "x"}

\* create_user: f"echo '{username}:{password}' | chpasswd"
ChpasswdCmd == <<"echo", Blank, Quote, "user:secret", Quote, Blank, Bar, Blank, "chpasswd">>

\* the command strings run_cmd is given
Cmds == UNION {[1..n -> Chars] : n \in 0..MaxCmdLen} \cup {ChpasswdCmd}

QuoteInit ==
    /\ prog \in {"A", "B"}
    /\ entry = "run_cmd"
    /\ study = "quoting"
    /\ pc = "start"
    /\ fw = "bios" /\ vm = FALSE /\ force = FALSE /\ euid = 0
    /\ disk = NoStr /\ mode = "" /\ use_swap = FALSE
    /\ log = <<>> /\ exit = Running
    /\ mtab = <<>> /\ fs = {} /\ swaps = {} /\ crypts = <<>> /\ parts = {} /\ nfail = 0
    /\ cmd \in Cmds
    /\ handed = NoStr

\* A and B: run_cmd(cmd, chroot=True), up to the shell's reading of the line
RunCmdChroot ==
    /\ entry = "run_cmd" /\ pc = "start"
    /\ handed' = Handed(ChrootWrap(cmd))
    /\ pc' = "done"
    /\ UNCHANGED <<prog, entry, study, fw, vm, force, euid, disk, mode, use_swap,
                   log, exit, mtab, fs, swaps, crypts, parts, nfail, cmd>>

QuoteNext == RunCmdChroot

QuoteSpec == QuoteInit /\ [][QuoteNext]_vars

\* ------------------------------------------------------------------ properties
Finished == pc \in {"done", "exited"}

Uefi == detect_uefi(fw)

\* the run partitions the disk automatically
AutoRun == (entry = "main" /\ mode = "a") \/ entry = "auto_partition_disk"

IsInput(i, prompt) == log[i].op = "input" /\ log[i].opt[1] = prompt

\* a chroot bind of mount_chroot_dirs, as opposed to the mount of a partition
BindOpts == {"--bind", "-t proc", "-t sysfs", "-t tmpfs"}
IsBind(c) == c.op = "mount" /\ c.opt \in BindOpts /\ c.at # NoStr /\ Head(c.at) = "/mnt"
IsPartMount(c) == c.op = "mount" /\ c.opt = ""
IsUnbind(c) == c.op = "umount -l"

Reverse(q) == [i \in DOMAIN q |-> q[Len(q) + 1 - i]]

\* the partition path the kernel gives partition n of a disk: a "p" goes
\* before the number when the disk's name ends in a digit
DeviceNaming(d, n) == IF EndsInDigit(d) THEN d \o <<"p">> \o NumStr(n) ELSE d \o NumStr(n)

\* C1: in auto mode every partition of the target disk that is formatted,
\* mounted or enabled as swap is named as DeviceNaming names it: with the
\* separator "p" when the disk's name ends in a digit, without it otherwise.
C1_PartitionPathsFollowDeviceNaming ==
    AutoRun =>
        \A i \in DOMAIN log :
            ((log[i].op \in {"mkfs", "mkswap", "swapon"} \/ IsPartMount(log[i]))
             /\ IsPrefix(disk, log[i].dev))
            => \E n \in 1..4 : log[i].dev = DeviceNaming(disk, n)

\* C2: no wipefs -a, sgdisk -Z or sgdisk -n is issued unless the user was
\* prompted earlier in the run and answered YES.
C2_NoWipeWithoutYes ==
    \A i \in DOMAIN log :
        log[i].op \in {"wipefs -a", "sgdisk -Z", "sgdisk -n"}
        => \E j \in 1..(i - 1) : IsInput(j, "Type 'YES' to continue: ") /\ log[j].opt[2] = "YES"

\* the place of a mount point in the order / , /boot , /boot/efi , deeper
MountRank(at) == IF at = MNT THEN 0 ELSE IF at = MNT_BOOT THEN 1 ELSE IF at = MNT_EFI THEN 2 ELSE 3

\* the manual stage of main has just ended
AfterManual == entry = "main" /\ mode = "m" /\ pc \in {"chroot", "base"}

\* C3: in manual mode the partitions are mounted in the order /, /boot,
\* /boot/efi, deeper paths, whatever the order of the user's entries.
C3_ManualMountOrder ==
    AfterManual =>
        \A i, j \in DOMAIN log :
            (i < j /\ IsPartMount(log[i]) /\ IsPartMount(log[j]))
            => MountRank(log[i].at) <= MountRank(log[j].at)

Ats(q) == [i \in DOMAIN q |-> q[i].at]

\* the binds mount_chroot_dirs performed and the unmounts umount_chroot_dirs issued
BindsPerformed == Ats(SelectSeq(log, LAMBDA c : IsBind(c) /\ c.rc = 0))
UnbindsIssued == Ats(SelectSeq(log, LAMBDA c : IsUnbind(c)))

\* the run held exactly one chroot session and has released it
OneSession ==
    /\ Len(SelectSeq(log, LAMBDA c : IsBind(c) /\ c.at = <<"/mnt", "/dev">>)) = 1
    /\ \/ entry = "install_bootloader" /\ pc = "done"
       \/ prog = "B" /\ entry = "main" /\ pc = "desktop"

\* C4: umount_chroot_dirs issues one unmount for each bind the preceding
\* mount_chroot_dirs performed, in the reverse of the order of the binds.
C4_UnbindsReverseBinds == OneSession => UnbindsIssued = Reverse(BindsPerformed)

LastWhere(Test(_)) ==
    LET S == {i \in DOMAIN log : Test(log[i])} IN IF S = {} THEN 0 ELSE CHOOSE i \in S : \A j \in S : j <= i

\* C5: once mount_chroot_dirs was called, umount_chroot_dirs is called before
\* the process ends, on every exit path.
C5_SessionReleasedOnEveryExit ==
    (Finished /\ LastWhere(IsBind) > 0) => LastWhere(IsUnbind) > LastWhere(IsBind)

IsGrubInstall(c) == c.op = "chroot grub-install"
IsStandard(c) == IsGrubInstall(c) /\ c.opt = "--bootloader-id=Void"
IsRemovable(c) == IsGrubInstall(c) /\ c.opt = "--removable"
IsMkconfig(c) == c.op = "chroot grub-mkconfig"

\* C6 as stated: in A, a failed standard grub-install is followed by a
\* --removable grub-install and then by grub-mkconfig; on BIOS no --removable
\* grub-install is issued.
C6_FallbackReachesConfigGenerated ==
    (prog = "A" /\ Finished) =>
        /\ \A i \in DOMAIN log :
               (IsStandard(log[i]) /\ log[i].rc # 0)
               => \E j \in DOMAIN log :
                      /\ j > i /\ IsRemovable(log[j])
                      /\ \E k \in DOMAIN log : k > j /\ IsMkconfig(log[k])
        /\ ~Uefi => \A i \in DOMAIN log : ~IsRemovable(log[i])

\* C6 (amended): in A, a failed standard grub-install is followed by a
\* --removable grub-install; grub-mkconfig follows when that one returns
\* zero, and when it returns nonzero the process exits with status 1 and no
\* grub-mkconfig is issued.  On BIOS no --removable grub-install is issued.
C6_FallbackThenConfigUnlessFallbackFails ==
    (prog = "A" /\ Finished) =>
        /\ \A i \in DOMAIN log :
               (IsStandard(log[i]) /\ log[i].rc # 0)
               => \E j \in DOMAIN log :
                      /\ j > i /\ IsRemovable(log[j])
                      /\ IF log[j].rc = 0
                         THEN \E k \in DOMAIN log : k > j /\ IsMkconfig(log[k])
                         ELSE exit = 1 /\ \A k \in DOMAIN log : ~IsMkconfig(log[k])
        /\ ~Uefi => \A i \in DOMAIN log : ~IsRemovable(log[i])

\* a run of A in which the standard install failed, the fallback succeeded
\* and the configuration was generated
C6_Witness ==
    /\ prog = "A" /\ pc = "done"
    /\ \E i, j, k \in DOMAIN log :
           /\ i < j /\ j < k
           /\ IsStandard(log[i]) /\ log[i].rc # 0
           /\ IsRemovable(log[j]) /\ log[j].rc = 0
           /\ IsMkconfig(log[k])

IsEfiPrompt(c) ==
    /\ c.op = "input"
    /\ c.opt[1] \in {"Enter EFI partition to mount at /mnt/boot/efi",
                     "Enter EFI partition (or leave blank if already mounted)"}

Sys == [mtab |-> mtab, fs |-> fs]

\* C7: on UEFI a grub-install is issued only with a vfat EFI system partition
\* mounted at /mnt/boot/efi, and never after the stage prompted for an EFI
\* partition and was given one to mount.
C7_EspGateIsHardStop ==
    (Uefi /\ Finished) =>
        \A g \in DOMAIN log :
            IsGrubInstall(log[g])
            => /\ IsMounted(Sys, MNT_EFI)
               /\ FsTypeAt(Sys, MNT_EFI) = "vfat"
               /\ ~\E i \in 1..(g - 1) : IsEfiPrompt(log[i]) /\ log[i].opt[2] # NoStr

\* C8: in A's main on UEFI, with removable mode not forced, no virtual
\* machine and the EFI system partition mounted, a standard grub-install is
\* issued before grub-mkconfig.
C8_StandardInstallBeforeConfig ==
    (/\ prog = "A" /\ entry = "main" /\ pc = "done"
     /\ Uefi /\ ~force /\ ~vm
     /\ IsMounted(Sys, MNT_EFI)
     /\ \A i \in DOMAIN log : ~IsEfiPrompt(log[i]))
    => \E i, j \in DOMAIN log : i < j /\ IsStandard(log[i]) /\ IsMkconfig(log[j])

\* the partitions created, in creation order
Created == MapSeq(SelectSeq(log, LAMBDA c : c.op = "sgdisk -n"), LAMBDA c : c.opt)

\* every partition of the plan was created
Partitioned == \E i \in DOMAIN log : log[i].op = "partprobe"

Part(num, size, type) == [num |-> num, size |-> size, type |-> type]

\* C9 as stated: UEFI, no swap: exactly EFI (512 MiB) and root (rest).
C9_UefiNoSwapIsEfiAndRoot ==
    (AutoRun /\ Partitioned /\ Uefi /\ ~use_swap)
    => Created = <<Part(1, "+512M", "ef00"), Part(2, "0", "8300")>>

\* C9 (amended): UEFI, no swap: B creates exactly EFI (512 MiB) and root
\* (rest); A creates exactly EFI (512 MiB), /boot (1 GiB) and root (rest).
C9_UefiNoSwapPerRevision ==
    (AutoRun /\ Partitioned /\ Uefi /\ ~use_swap)
    => Created = IF prog = "B"
                 THEN <<Part(1, "+512M", "ef00"), Part(2, "0", "8300")>>
                 ELSE <<Part(1, "+512M", "ef00"), Part(2, "+1G", "8300"), Part(3, "0", "8300")>>

C9_Witness == AutoRun /\ Partitioned /\ Uefi /\ ~use_swap /\ prog = "B" /\ Len(Created) = 2

\* the role of a created partition, from its type code and size
RoleOf(q) ==
    IF q.type = "ef00" /\ q.size = "+512M" THEN "efi"
    ELSE IF q.type = "8200" THEN "swap"
    ELSE IF q.type = "8300" /\ q.size = "+1G" THEN "boot"
    ELSE IF q.type = "8300" THEN "root"
    ELSE "other"

Shape(efi, boot, swap) ==
    (IF efi THEN <<"efi">> ELSE <<>>) \o (IF boot THEN <<"boot">> ELSE <<>>)
    \o <<"root">> \o (IF swap THEN <<"swap">> ELSE <<>>)

CreatedAs(shape) ==
    /\ MapSeq(Created, RoleOf) = shape
    /\ \A i \in DOMAIN Created : Created[i].num = i

\* C10 as stated: EFI (UEFI only), /boot, root, swap (only when requested),
\* in this order, numbered from 1.
C10_PlanIsEfiBootRootSwap ==
    (AutoRun /\ Partitioned) => CreatedAs(Shape(Uefi, TRUE, use_swap))

\* C10 (amended): the same in A; B creates no /boot partition: EFI (UEFI
\* only), root, swap (only when requested), numbered from 1.
C10_PlanPerRevision ==
    (AutoRun /\ Partitioned) => CreatedAs(Shape(Uefi, prog = "A", use_swap))

C10_Witness ==
    /\ AutoRun /\ Partitioned /\ ~Uefi /\ use_swap /\ prog = "A"
    /\ MapSeq(Created, RoleOf) = <<"boot", "root", "swap">>


\* the places of the root partitions in the creation order
RootsCreated == {i \in DOMAIN Created : RoleOf(Created[i]) = "root"}

\* C11: in auto mode, whatever the firmware, the root partition is created
\* with the size 20 GiB exactly when swap was requested, and the swap
\* partition is then created right after it; without swap the root partition
\* takes the rest of the disk and no swap partition is created.
C11_RootCappedIffSwap ==
    (AutoRun /\ Partitioned) =>
        \A r \in RootsCreated :
            /\ Created[r].size = "+20G" <=> use_swap
            /\ use_swap => /\ r < Len(Created)
                           /\ RoleOf(Created[r + 1]) = "swap"
            /\ ~use_swap => /\ Created[r].size = "0"
                            /\ \A i \in DOMAIN Created : RoleOf(Created[i]) # "swap"

\* a plan with swap on BIOS was created: root of 20 GiB, then swap
C11_Witness ==
    /\ AutoRun /\ Partitioned /\ use_swap /\ ~Uefi /\ prog = "B"
    /\ \E r \in RootsCreated : Created[r].size = "+20G" /\ RoleOf(Created[r + 1]) = "swap"


\* the automatic partitioning, formatting and mounting has just ended
AfterAuto ==
    \/ entry = "main" /\ mode = "a" /\ pc \in {"chroot", "base"}
    \/ entry = "auto_partition_disk" /\ pc = "done"

\* the places in the creation order of the partitions created in a role
CreatedIn(role) == {i \in DOMAIN Created : RoleOf(Created[i]) = role}

\* every partition mounted at a path is the partition of the target disk that
\* was created in the role
MountedIs(at, role) ==
    \A i \in DOMAIN log :
        (IsPartMount(log[i]) /\ log[i].at = at)
        => \E r \in CreatedIn(role) : log[i].dev = DeviceNaming(disk, Created[r].num)

\* C12: the plan created in auto mode has exactly one root partition, an EFI
\* partition exactly on UEFI, and strictly increasing partition numbers; the
\* partition then mounted at /mnt is the one created as root, and the one
\* mounted at /mnt/boot/efi is the one created as EFI.
C12_PlanRolesAndMounts ==
    (AfterAuto /\ Partitioned) =>
        /\ Cardinality(CreatedIn("root")) = 1
        /\ CreatedIn("efi") # {} <=> Uefi
        /\ \A i, j \in DOMAIN Created : i < j => Created[i].num < Created[j].num
        /\ MountedIs(MNT, "root")
        /\ MountedIs(MNT_EFI, "efi")


\* the destructive confirmation was asked and answered with something else than YES
Declined ==
    \E i \in DOMAIN log : IsInput(i, "Type 'YES' to continue: ") /\ log[i].opt[2] # "YES"

\* C13: when the destructive confirmation is answered with anything but YES,
\* the process exits with status 1.
C13_DeclineExitsWithOne == (Declined /\ Finished) => exit = 1


\* the commands that release, wipe, partition, format or mount
Mutating ==
    {"umount", "umount -l", "umount -lf", "swapoff", "cryptsetup close", "vgchange -an",
     "wipefs -a", "sgdisk -Z", "sgdisk -n", "partprobe", "mkfs", "mkswap", "swapon", "mount",
     "mkdir -p"}

\* the state of the disks and of the mount table
Sysvars == <<mtab, fs, swaps, crypts, parts>>

\* C14: when the confirmation of auto_partition_disk is declined the run
\* ends, no releasing, wiping, partitioning, formatting or mounting command
\* was issued, and the step that asked left the mount table, the filesystem
\* signatures, the swap areas, the mappings and the partition table as they
\* were.
C14_DeclineLeavesStateAlone ==
    /\ [](Declined => /\ Finished
                      /\ \A i \in DOMAIN log : log[i].op \notin Mutating)
    /\ [][Declined' => UNCHANGED Sysvars]_vars

\* the confirmation was declined with partitions of the disk mounted and a
\* swap area active
C14_Witness == Declined /\ Finished /\ mtab = Leftover /\ swaps # {}


Partitioning == {"wipefs -a", "sgdisk -Z", "sgdisk -n", "partprobe"}
Formatting == {"mkfs", "mkswap"}
Releasing == {"umount", "umount -l", "umount -lf", "swapoff"}

C16_NoRootExitsFirst ==
    (entry = "main" /\ euid # 0 /\ pc # "start")
    => (pc = "exited" /\ exit = 1 /\ log = <<>>)

\* main was started by an unprivileged user and has ended
C16_Witness == entry = "main" /\ euid # 0 /\ pc = "exited" /\ prog = "B"


\* unmount_disk_partitions was called directly
DirectRelease == entry = "unmount_disk_partitions"

\* C17: of two calls of unmount_disk_partitions in succession on the same
\* disk the second returns normally, whatever the first released and
\* whatever the commands return: the process never exits.
C17_SecondReleaseReturns ==
    (DirectRelease /\ pc \notin {"start", "once"}) => (pc = "done" /\ exit = Running)

\* both calls were made, commands of both failed, partitions were mounted
C17_Witness ==
    /\ DirectRelease /\ pc = "done" /\ prog = "B" /\ Len(log) >= 4
    /\ log[1].rc # 0 /\ log[Len(log)].rc # 0


\* the mount table entries of partitions of the disk
OnDisk(m, d) == m.dev # <<>> /\ Head(m.dev) = "/dev/" /\ IsPrefix(DiskName(d), DevName(m.dev))

\* C18: every call of A's unmount_disk_partitions attempts each of its five
\* steps, whatever the commands of the earlier steps return: it unmounts
\* every mount under /mnt, turns off every swap area on the disk, closes
\* every mapping, deactivates the volume groups, and unmounts every partition
\* of the disk that the first step did not unmount.
C18_EveryStepAttempted ==
    [][(prog = "A" /\ DirectRelease) =>
        LET new == SubSeq(log', Len(log) + 1, Len(log'))
        IN  /\ \A k \in DOMAIN mtab :
                   (Contains(mtab[k].dev, "/mnt") \/ Contains(mtab[k].at, "/mnt"))
                   => \E i \in DOMAIN new : new[i].op = "umount -lf" /\ new[i].at = mtab[k].at
            /\ \A d \in swaps :
                   IsPrefix(disk, d)
                   => \E i \in DOMAIN new : new[i].op = "swapoff" /\ new[i].dev = d
            /\ \A k \in DOMAIN crypts :
                   \E i \in DOMAIN new :
                       new[i].op = "cryptsetup close" /\ new[i].dev = crypts[k].name
            /\ \E i \in DOMAIN new : new[i].op = "vgchange -an"
            /\ \A k \in DOMAIN mtab :
                   (/\ OnDisk(mtab[k], disk)
                    /\ ~\E i \in DOMAIN new : /\ new[i].op = "umount -lf"
                                              /\ new[i].at = mtab[k].at
                                              /\ new[i].rc = 0)
                   => \E j \in DOMAIN new : /\ new[j].op = "umount -lf"
                                            /\ new[j].at = NoStr
                                            /\ new[j].dev = mtab[k].dev
            /\ exit' = Running
      ]_vars

\* a call in which an unmount of the first step failed and the later steps
\* ran: the swap area was turned off, the mapping closed, the volume groups
\* deactivated and the partition swept
C18_Witness ==
    /\ prog = "A" /\ DirectRelease /\ pc = "once" /\ Len(log) >= 6
    /\ log[1].op = "umount -lf" /\ log[1].at # NoStr /\ log[1].rc # 0
    /\ \E i, j, k, l \in DOMAIN log :
           /\ i < j /\ j < k /\ k < l
           /\ log[i].op = "swapoff"
           /\ log[j].op = "cryptsetup close"
           /\ log[k].op = "vgchange -an"
           /\ log[l].op = "umount -lf" /\ log[l].at = NoStr


\* the five directories mount_chroot_dirs binds into the target
BindTargets ==
    {<<"/mnt", "/dev">>, <<"/mnt", "/dev", "/pts">>, <<"/mnt", "/proc">>, <<"/mnt", "/sys">>,
     <<"/mnt", "/run">>}

\* the chroot binds are in place when the command at position k is issued
BindsInPlaceAt(k) ==
    \A t \in BindTargets :
        \E b \in 1..(k - 1) :
            /\ IsBind(log[b]) /\ log[b].at = t /\ log[b].rc = 0
            /\ ~\E u \in (b + 1)..(k - 1) : IsUnbind(log[u]) /\ log[u].at = t /\ log[u].rc = 0

Mkconfigs == {k \in DOMAIN log : IsMkconfig(log[k])}

\* after the grub-install at position g, grub-mkconfig is issued, once in the
\* run, with the binds in place
ConfigGeneratedAfter(g) ==
    /\ Cardinality(Mkconfigs) = 1
    /\ \A k \in Mkconfigs : k > g /\ BindsInPlaceAt(k)

\* C19 as stated: every grub-install issued is followed by grub-mkconfig,
\* issued exactly once, while the chroot binds are in place.
C19_ConfigAfterEveryInstall ==
    Finished => \A g \in DOMAIN log : IsGrubInstall(log[g]) => ConfigGeneratedAfter(g)

\* the run ended on a grub-install issued with check=True that returned nonzero
AbortedByInstall ==
    /\ exit = 1 /\ log # <<>>
    /\ IsGrubInstall(log[Len(log)])
    /\ log[Len(log)].by = ByCheck /\ log[Len(log)].rc # 0

\* C19 (amended): every grub-install issued is followed by grub-mkconfig,
\* issued exactly once, while the chroot binds are in place, unless a
\* grub-install issued with check=True returned nonzero: the process then
\* exits with status 1 and grub-mkconfig is not issued.
C19_ConfigAfterInstallUnlessAborted ==
    Finished =>
        \A g \in DOMAIN log :
            IsGrubInstall(log[g])
            => IF AbortedByInstall THEN Mkconfigs = {} ELSE ConfigGeneratedAfter(g)

\* B on UEFI: the standard install succeeded and the configuration was
\* generated inside the session
C19_Witness ==
    /\ prog = "B" /\ pc = "done" /\ Uefi
    /\ \E g \in DOMAIN log : IsStandard(log[g]) /\ log[g].rc = 0 /\ ConfigGeneratedAfter(g)


GrubInstalls == {g \in DOMAIN log : IsGrubInstall(log[g])}

\* C20: in A's main with --force-removable on UEFI, the one grub-install of
\* the run is a --removable one and none names a boot entry; on BIOS the
\* bootloader stage issues the same commands with the flag as without it.
C20_ForceRemovable ==
    /\ (prog = "A" /\ entry = "main" /\ force /\ Uefi /\ pc = "done")
       => /\ Cardinality(GrubInstalls) = 1
          /\ \A g \in GrubInstalls : IsRemovable(log[g])
    /\ (prog = "A" /\ entry = "main" /\ force /\ Uefi)
       => \A g \in GrubInstalls : ~IsStandard(log[g])
    /\ (prog = "A" /\ entry = "main" /\ ~Uefi /\ pc = "bootloader")
       => \A F \in FailSets, e \in EfiAnswers :
              install_bootloader_modular(Cur(F), disk, FALSE, TRUE, vm, e)
              = install_bootloader_modular(Cur(F), disk, FALSE, FALSE, vm, e)

\* a run of A's main with --force-removable on UEFI, outside a virtual
\* machine, that installed the bootloader in removable mode
C20_Witness ==
    /\ prog = "A" /\ entry = "main" /\ force /\ ~vm /\ Uefi /\ pc = "done"
    /\ \E g \in GrubInstalls : IsRemovable(log[g])


\* the user declared root LUKS-encrypted in manual mode
LuksDeclared ==
    \E i \in DOMAIN log :
        IsInput(i, "Did you set up LUKS encryption for root? [y/N]: ") /\ log[i].opt[2] = "y"

\* a /dev/mapper/<name> path, as opposed to the path of a partition
IsMapperPath(dev) == dev # <<>> /\ Head(dev) = "/dev/mapper/"
IsRawPath(dev) == dev # <<>> /\ Head(dev) = "/dev/"

\* the devices mounted at /mnt as root
RootsMounted == {log[i].dev : i \in {j \in DOMAIN log : IsPartMount(log[j]) /\ log[j].at = MNT}}

\* the partitioning stage of main has just ended
AfterPartitioning == entry = "main" /\ pc \in {"chroot", "base"}

\* C21: with root encryption enabled the device formatted and mounted at /mnt
\* is a /dev/mapper/ path, never the raw partition; with encryption disabled
\* it is the raw root partition.
C21_EncryptedRootIsMapper ==
    AfterPartitioning =>
        \A d \in RootsMounted : IF LuksDeclared THEN IsMapperPath(d) ELSE IsRawPath(d)

\* the file a command writes or creates, for the commands that name one
Writes(c, path) == c.op \in {"echo", "cp"} /\ c.at = path

CRYPTTAB == <<"/mnt", "/etc", "/crypttab">>

\* C22: when the user declared root LUKS-encrypted, a crypt-unlock table
\* entry is written inside /mnt before grub-mkconfig is issued.
C22_CrypttabBeforeConfig ==
    (entry = "main" /\ LuksDeclared) =>
        \A k \in DOMAIN log :
            IsMkconfig(log[k]) => \E j \in 1..(k - 1) : Writes(log[j], CRYPTTAB)


\* path a is a proper ancestor of path b
IsAncestor(a, b) == Len(a) < Len(b) /\ IsPrefix(a, b)

\* where a mount point typed by the user lands under /mnt
Target(mnt) == IF mnt = <<"/">> THEN MNT ELSE MNT \o mnt

\* log[i] mounts a partition at a mount point the user typed in manual mode
SuppliedMount(i) ==
    /\ IsPartMount(log[i])
    /\ \E k \in 1..(i - 1) :
           /\ \/ IsInput(k, "Mount point (e.g., /home): ")
              \/ IsInput(k, "Mount point (e.g., /, /home, swap, /boot/efi): ")
           /\ log[i].at = Target(log[k].opt[2])

\* C23: of the mount points the user supplies in manual mode, a descendant
\* (/home/data) is mounted only after its ancestor (/home), whatever the
\* order they were typed in.
C23_AncestorsMountedFirst ==
    (entry = "main" /\ mode = "m") =>
        \A i, j \in DOMAIN log :
            (SuppliedMount(i) /\ SuppliedMount(j) /\ IsAncestor(log[i].at, log[j].at))
                => i < j


\* C24: whenever a run of main reaches install_base, in auto or manual mode, a
\* root filesystem is mounted at /mnt.
C24_RootMountedBeforeBase ==
    (entry = "main" /\ pc = "base") =>
        /\ \E m \in DOMAIN mtab : mtab[m].at = MNT
        /\ \E i \in DOMAIN log : IsPartMount(log[i]) /\ log[i].at = MNT


\* the command at position j creates a filesystem on dev, after the partition
\* table was written
FormattedAt(j, dev) ==
    /\ log[j].op = "mkfs" /\ log[j].dev = dev
    /\ \E k \in 1..(j - 1) : log[k].op = "partprobe"

\* C25: in auto mode every partition mounted under /mnt (root, /boot and the
\* EFI system partition, on either firmware) had a filesystem created on it
\* earlier in the same run, after the partition table was written.
C25_AutoMountsAreFormatted ==
    (entry = "main" /\ mode = "a") =>
        \A i \in DOMAIN log :
            IsPartMount(log[i]) => \E j \in 1..(i - 1) : FormattedAt(j, log[i].dev)


\* the run ended at the command at position i: nothing but the exit prompt follows it
EndedAt(i) == pc = "exited" /\ \A j \in (i + 1)..Len(log) : log[j].op = "input"

\* C26: the binds of mount_chroot_dirs are attempted independently: when one
\* returns nonzero the run does not end there, and every call that binds
\* /mnt/dev goes on to attempt each of the other binds.
C26_BindsIndependent ==
    /\ \A i \in DOMAIN log : (IsBind(log[i]) /\ log[i].rc # 0) => ~EndedAt(i)
    /\ \A b \in DOMAIN log :
           (IsBind(log[b]) /\ log[b].at = <<"/mnt", "/dev">>) =>
               \A t \in BindTargets :
                   \E k \in b..(b + 4) : k \in DOMAIN log /\ IsBind(log[k]) /\ log[k].at = t


\* umount_chroot_dirs was called on target t between positions b and k
ReleasedBetween(t, b, k) == \E u \in (b + 1)..(k - 1) : IsUnbind(log[u]) /\ log[u].at = t

\* a chroot session is open when the command at position k is issued: some
\* bind of an earlier mount_chroot_dirs was performed and not released since
SessionOpenAt(k) ==
    \E b \in 1..(k - 1) :
        /\ IsBind(log[b]) /\ log[b].at \in BindTargets /\ log[b].rc = 0
        /\ ~ReleasedBetween(log[b].at, b, k)

\* C27: in a run of main no mount_chroot_dirs starts while the binds of an
\* earlier call are in place, and when main returns every session has been
\* released.
C27_SessionsNeverNested ==
    entry = "main" =>
        /\ \A k \in DOMAIN log :
               (IsBind(log[k]) /\ log[k].at = <<"/mnt", "/dev">>) => ~SessionOpenAt(k)
        /\ pc = "done" => ~SessionOpenAt(Len(log) + 1)


\* a command run inside the chroot at /mnt
IsChroot(c) ==
    c.op \in {"chroot", "chroot xbps-install", "chroot grub-install", "chroot grub-mkconfig",
              "chroot mountpoint"}

\* a root filesystem mounted by this run is at /mnt when the command at
\* position k is issued
RootMountedAt(k) ==
    \E m \in 1..(k - 1) :
        /\ IsPartMount(log[m]) /\ log[m].at = MNT /\ log[m].rc = 0
        /\ ~\E u \in (m + 1)..(k - 1) :
               /\ log[u].op \in Releasing /\ log[u].rc = 0
               /\ (log[u].at = MNT \/ log[u].dev = log[m].dev)

\* C28: in a run of main every command run in the chroot is issued while a
\* root filesystem is mounted at /mnt and the binds of a preceding
\* mount_chroot_dirs are in place and not yet released.
C28_ChrootOnlyInSession ==
    entry = "main" =>
        \A k \in DOMAIN log : IsChroot(log[k]) => (RootMountedAt(k) /\ BindsInPlaceAt(k))


\* the stage of main a command belongs to: 1 release, 2 partition creation,
\* 3 formatting and mounting of root, 4 package installation into /mnt,
\* 5 bootloader installation; 0 for the commands of no stage the order names
StageRank(c) ==
    IF c.op \in {"umount", "umount -lf", "swapoff", "cryptsetup close", "vgchange -an"} THEN 1
    ELSE IF c.op \in Partitioning THEN 2
    ELSE IF c.op \in Formatting \/ (IsPartMount(c) /\ c.at = MNT) THEN 3
    ELSE IF c.op = "xbps-install" /\ c.at = MNT THEN 4
    ELSE IF IsGrubInstall(c) \/ IsMkconfig(c) THEN 5
    ELSE 0

Ranked == {i \in DOMAIN log : StageRank(log[i]) > 0}

BackedBy(m, d) == IsPrefix(d, m.on)

\* C30: a call of unmount_disk_partitions closes a mapping if and only if it
\* is backed by a partition of the target disk: it issues cryptsetup close
\* for every open mapping on the disk and for no mapping on another disk.
C30_ClosesOnlyMappingsOnDisk ==
    [][(prog = "A" /\ DirectRelease /\ Len(log') > Len(log)) =>
          LET new == SubSeq(log', Len(log) + 1, Len(log'))
          IN  \A k \in DOMAIN crypts :
                  BackedBy(crypts[k], disk)
                      <=> \E i \in DOMAIN new :
                              new[i].op = "cryptsetup close" /\ new[i].dev = crypts[k].name
      ]_vars


\* an unmount of step 1 of A's unmount_disk_partitions: by mount point
IsStepOne(c) == c.op = "umount -lf" /\ c.at # NoStr

\* C31: step 1 of unmount_disk_partitions unmounts each mount point before
\* any proper path ancestor of it, and unmounts only /mnt itself and mount
\* points under /mnt/.
C31_DeepestFirstUnderMnt ==
    [][(prog = "A" /\ DirectRelease /\ Len(log') > Len(log)) =>
          LET new == SubSeq(log', Len(log) + 1, Len(log'))
          IN  /\ \A i, j \in DOMAIN new :
                     (IsStepOne(new[i]) /\ IsStepOne(new[j]) /\ IsAncestor(new[i].at, new[j].at))
                         => j < i
              /\ \A i \in DOMAIN new : IsStepOne(new[i]) => IsPrefix(MNT, new[i].at)
      ]_vars


IsWipe(c) == c.op = "wipefs -a"

\* the auto branch was entered and not declined
AutoEntered ==
    \/ \E i \in DOMAIN log : IsInput(i, "Type 'YES' to continue: ") /\ log[i].opt[2] = "YES"
    \/ /\ prog = "A" /\ entry = "main"
       /\ \E i \in DOMAIN log : IsInput(i, "Create a swap partition? [y/N]: ")

\* C32: in auto mode the signature wipe is issued once unmount_disk_partitions
\* has returned, whatever its commands returned, and before any partition is
\* created: the wipe is in every run that entered the auto branch, every
\* command of the release precedes it and every sgdisk -n follows it.
C32_WipeAfterReleaseBeforeCreate ==
    (AutoRun /\ AutoEntered) =>
        \E w \in DOMAIN log :
            /\ IsWipe(log[w])
            /\ \A i \in DOMAIN log :
                   /\ StageRank(log[i]) = 1 => i < w
                   /\ log[i].op = "sgdisk -n" => w < i

\* a release in which a command failed, followed by the wipe and the creation
\* of the partitions
C32_Witness ==
    /\ AutoRun /\ AutoEntered
    /\ \E r, w, c \in DOMAIN log :
           /\ r < w /\ w < c
           /\ StageRank(log[r]) = 1 /\ log[r].rc # 0
           /\ IsWipe(log[w]) /\ log[c].op = "sgdisk -n"


\* C33: whatever command string run_cmd is given with chroot=True, quotes
\* included, the string handed to the shell inside the target root is that
\* command string.
C33_ChrootCommandHandedIntact ==
    (entry = "run_cmd" /\ pc = "done") => handed = cmd


\* C34: on UEFI in a virtual machine every bootloader routine of
\* src/voidinstall.py installs GRUB in removable mode without first
\* attempting the standard install: no standard grub-install is issued.
C34_VmInstallsRemovableFirst ==
    (prog = "A" /\ Uefi /\ vm) => \A k \in DOMAIN log : ~IsStandard(log[k])


\* C35: when main of src/voidinstall.py reaches its final message, a
\* grub-install was issued during the run and returned zero.
C35_CompleteMeansGrubInstalled ==
    (prog = "A" /\ entry = "main" /\ pc = "done") =>
        \E k \in DOMAIN log : IsGrubInstall(log[k]) /\ log[k].rc = 0


Standards == {k \in DOMAIN log : IsStandard(log[k])}
Removables == {k \in DOMAIN log : IsRemovable(log[k])}

\* the test for efivars inside the chroot, made before position r, failed
NoEfivarsInChrootBefore(r) ==
    \E t \in 1..(r - 1) : log[t].op = "chroot test" /\ log[t].rc # 0

\* C36: one invocation of install_bootloader of src/voidinstall.py on UEFI
\* issues at most one standard and at most one --removable grub-install, and
\* the --removable one only when efivars are missing on the host and in the
\* chroot or when the standard install of the invocation returned nonzero.
C36_SingleFallback ==
    (prog = "A" /\ entry = "install_bootloader" /\ Uefi) =>
        /\ Cardinality(Standards) <= 1
        /\ Cardinality(Removables) <= 1
        /\ \A r \in Removables :
               \/ ~HostEfivars(fw) /\ NoEfivarsInChrootBefore(r)
               \/ \E s \in Standards : s < r /\ log[s].rc # 0

\* the standard install failed and the single fallback followed
C36_Witness ==
    /\ prog = "A" /\ entry = "install_bootloader" /\ Uefi /\ pc = "done"
    /\ \E s \in Standards : \E r \in Removables : s < r /\ log[s].rc # 0 /\ log[r].rc = 0


\* dev is the path of a partition of the disk
IsPartitionOf(dev, d) == \E n \in 1..6 : dev = DeviceNaming(d, n)

\* an unmount of the name-prefix sweep: by device
IsSweep(c) == c.op \in {"umount", "umount -lf"} /\ c.at = NoStr /\ c.dev # NoStr

\* C37: the name-prefix sweep of unmount_disk_partitions unmounts only
\* partitions of the target disk, never a partition of another disk whose
\* name starts with the target disk's name.
C37_SweepOnlyTargetDisk ==
    DirectRelease => \A i \in DOMAIN log : IsSweep(log[i]) => IsPartitionOf(log[i].dev, disk)


\* format_and_mount_manual of src/voidinstall.py was entered from main: its
\* listing of the partitions was issued and returned zero
ManualEnteredA ==
    /\ prog = "A" /\ entry = "main"
    /\ \E i \in DOMAIN log :
           log[i].op = "lsblk" /\ log[i].opt = "-o NAME,SIZE,TYPE,MOUNTPOINT" /\ log[i].rc = 0

RootPrompts == {p \in DOMAIN log : IsInput(p, "Enter the device for the root partition")}

\* C38: in every run of main of src/voidinstall.py that enters manual mode,
\* format_and_mount_manual prompts for the root partition, formats it and
\* mounts it at /mnt: every mount at /mnt is of the partition typed at the
\* prompt and follows its mkfs, and the prompt of the branch that reuses a
\* prepared encrypted root is never shown.
C38_ManualAlwaysPromptsForRoot ==
    ManualEnteredA =>
        /\ RootPrompts # {}
        /\ \A i \in DOMAIN log : ~IsInput(i, "Do you want to create an ext4 filesystem")
        /\ \A m \in DOMAIN log :
               (IsPartMount(log[m]) /\ log[m].at = MNT) =>
                   \E p \in RootPrompts : \E f \in (p + 1)..(m - 1) :
                       /\ log[m].dev = log[p].opt[2]
                       /\ log[f].op = "mkfs" /\ log[f].dev = log[m].dev /\ log[f].rc = 0
        /\ pc \in {"chroot", "base"} => \E m \in DOMAIN mtab : mtab[m].at = MNT

\* a manual run of main past format_and_mount_manual, root formatted and mounted
C38_Witness ==
    /\ ManualEnteredA /\ pc = "chroot"
    /\ \E m \in DOMAIN log : IsPartMount(log[m]) /\ log[m].at = MNT /\ log[m].rc = 0


\* the answer is one of the listed numbers
Listed(ans) == ans.num /\ ans.n \in 1..Len(DesktopKeys)

\* the command installs a desktop environment or enables a display manager
IsDesktopInstall(c) ==
    \/ c.op = "xbps-install" /\ c.opt \in {"xfce", "gnome", "kde"}
    \/ c.op = "ln -sf" /\ c.opt \in {"lightdm", "gdm", "sddm"}

\* C39: in install_desktop_and_sound an answer that is not one of the listed
\* numbers (empty, not a number, 0, negative, above 4) selects "none": no
\* desktop packages are installed and no display manager is enabled.
C39_UnlistedAnswerSelectsNone ==
    \A i \in DOMAIN log :
        (IsInput(i, "Select desktop environment [number, default none]: ")
         /\ ~Listed(log[i].opt[2]))
            => \A k \in DOMAIN log : ~IsDesktopInstall(log[k])

====
